---------------------------- MODULE Spec2Model ----------------------------
(***************************************************************************)
(* Phone index of CRMbyA/documents-for-crm: src/src/indexer/               *)
(* indexer.service.ts (IndexerService, the S3-backed indexer) and          *)
(* indexer.controller.ts.                                                  *)
(*                                                                         *)
(* A phone string is a sequence of one-character strings, so that          *)
(* stripping, prefixing and substring are computed as the code computes    *)
(* them.  The module holds these specifications over one set of variables: *)
(*   SpecNorm     normalizePhone and the inline normalization of           *)
(*                findByPhone applied to bounded raw inputs                *)
(*   SpecIngest   createIndex: the busy flag, the 'line'/'close'/'error'   *)
(*                handlers, saveBufferToS3, saveMetadata, the S3 store     *)
(*   SpecFed      findByPhoneParallel over a static store                  *)
(*   SpecProg     findByPhoneWithProgress over a static store              *)
(*   SpecStream   SpecProg with a consumer that may disconnect             *)
(*   SpecLookup   one findByPhone call with the S3 requests it issues      *)
(*   SpecScenario one createIndex run over a given source                  *)
(*   SpecStats    getSingleDatabaseStats during and after such a run       *)
(*   SpecAgree    findByPhoneParallel, then findByPhoneWithProgress, for   *)
(*                one phone over one store                                 *)
(*   SpecEncoding SpecScenario with the encoding selector of the call      *)
(*   SpecAggregate getDatabaseStats over a static store                    *)
(*   SpecReport   the byte counters and percentComplete of a run           *)
(* Each specification parks the variables of the others.                   *)
(***************************************************************************)
EXTENDS Integers, Sequences, FiniteSets, TLC

VARIABLES
    \* ---- SpecNorm
    input,        \* the raw phone string under test
    normOut,      \* normalizePhone(input), or Unset
    renormOut,    \* normalizePhone(normOut), or Unset
    searchOut,    \* what findByPhone's inline normalization makes of input
    \* ---- the S3 bucket
    folders,      \* keys "<db>/" written by createFolder
    markers,      \* keys "<db>/<prefix>/" written by createFolder
    blobs,        \* <<db, prefix>> -> content of "<db>/<prefix>/data.json"
    meta,         \* db -> content of "<db>/metadata.json"
    \* ---- SpecIngest: IndexerService fields
    indexingInProgress,   \* the busy flag
    stats,                \* processingStats
    \* ---- SpecIngest: the closure of the createIndex call that holds the flag
    pc,           \* where that call stands
    runDb,        \* dto.databaseId
    runCall,      \* index of that call in calls
    isFirstLine,
    buffer,       \* the object bound to `buffer`: prefix -> (phone -> record)
    processed,
    metadata,
    flushes,      \* saveBufferToS3 invocations in flight
    \* ---- SpecIngest: the callers and the environment
    calls,        \* every createIndex call made: what its caller got, whether a
                  \* partition write of its run failed, the phones its completed
                  \* partition writes held, and whether a 'line' event was
                  \* handled while a flush of a 'line' handler was in flight
    indexed,      \* canonical phones the current run counted as indexed
    linesRead,    \* 'line' events delivered so far
    faults,       \* S3 and stream failures injected so far
    \* ---- SpecFed and SpecProg: one search call
    phoneArg,     \* the raw phone the call was made with
    databases,    \* what getAllDatabases returned
    queried,      \* databases findByPhone was called for
    \* ---- SpecFed: findByPhoneParallel
    fedPc,
    fedI,         \* the loop variable i of 777
    lookups,      \* the batch's promises: index in databases -> state, result
    results,
    errors,
    fedReturn,    \* what the caller got
    \* ---- SpecProg: findByPhoneWithProgress and searchPhoneStream
    progPc,
    progI,        \* the loop variable i of 874
    events,       \* every event handed to progressCallback, in order
    subjectDone,  \* subject.complete() has run
    connected,    \* the consumer is subscribed to the observable of the subject
    \* ---- SpecLookup: one findByPhone call
    lookDb,       \* the databaseId argument (the phone is phoneArg)
    lookPc,
    reads,        \* the S3 requests the call has issued, in order
    lookResult,   \* what the caller got
    \* ---- SpecStats: getSingleDatabaseStats
    statsOut,     \* what the last call returned
    \* ---- SpecReport: the byte counters of processingStats
    progress,     \* fileSize, bytesProcessed, percentComplete of a run, with the
                  \* bytes of the source read so far
    \* ---- what a behaviour fixes at its start
    chunkSize,    \* the chunk threshold the run flushes at
    source,       \* SpecScenario: the lines of the source object, header first
    encoding      \* dto.encoding || 'utf8'

normVars   == <<input, normOut, renormOut, searchOut>>
storeVars  == <<folders, markers, blobs, meta>>
ingestVars == <<indexingInProgress, stats, pc, runDb, runCall, isFirstLine, buffer,
                processed, metadata, flushes, calls, indexed, linesRead, faults>>
callVars   == <<phoneArg, databases, queried>>
fedVars    == <<fedPc, fedI, lookups, results, errors, fedReturn>>
progVars   == <<progPc, progI, events, subjectDone, connected>>
lookVars   == <<lookDb, lookPc, reads, lookResult>>
statVars   == <<statsOut>>
reportVars == <<progress>>
config     == <<chunkSize, source, encoding>>
vars       == <<normVars, storeVars, ingestVars, callVars, fedVars, progVars, lookVars,
                statVars, reportVars, config>>

\* what the actions of one specification leave alone
notNorm    == <<storeVars, ingestVars, callVars, fedVars, progVars, lookVars, statVars, reportVars,
                config>>
notIngest  == <<normVars, callVars, fedVars, progVars, lookVars, statVars, reportVars,
                config>>
notFed     == <<normVars, storeVars, ingestVars, progVars, lookVars, statVars, reportVars,
                config>>
notProg    == <<normVars, storeVars, ingestVars, fedVars, lookVars, statVars, reportVars,
                config>>
notLook    == <<normVars, storeVars, ingestVars, fedVars, progVars, statVars, reportVars,
                config>>
notStats   == <<normVars, storeVars, ingestVars, callVars, fedVars, progVars, lookVars,
                reportVars, config>>
notReport  == <<normVars, storeVars, ingestVars, callVars, fedVars, progVars, lookVars,
                statVars, config>>

-----------------------------------------------------------------------------
(* Characters and strings *)

Digits == {"0", "1", "2", "3", "4", "5", "6", "7", "8", "9"}

DigitSeq == <<"0", "1", "2", "3", "4", "5", "6", "7", "8", "9">>

QuoteChars == {"\"", "'"}

\* JavaScript null, as a value comparable with phone strings
Null == <<"null">>

\* "not computed yet" in SpecNorm
Unset == <<"unset">>

NormParked ==
    /\ input = <<>>
    /\ normOut = Unset
    /\ renormOut = Unset
    /\ searchOut = Unset

CallParked ==
    /\ phoneArg = <<>>
    /\ databases = <<>>
    /\ queried = {}

FedParked ==
    /\ fedPc = "idle"
    /\ fedI = 0
    /\ lookups = <<>>
    /\ results = <<>>
    /\ errors = <<>>
    /\ fedReturn = [kind |-> "none"]

ProgParked ==
    /\ progPc = "idle"
    /\ progI = 0
    /\ events = <<>>
    /\ subjectDone = FALSE
    /\ connected = TRUE

CHUNK_SIZE == 50000

\* no scenario source; the threshold of the service
ConfigParked ==
    /\ chunkSize = CHUNK_SIZE
    /\ source = <<>>
    /\ encoding = "utf8"

LookParked ==
    /\ lookDb = "none"
    /\ lookPc = "idle"
    /\ reads = <<>>
    /\ lookResult = [status |-> "none"]

\* resetStats, 502-518, as far as the byte counters go
NoProgress ==
    [pc |-> "idle", fileSize |-> 0, sourceRead |-> 0, bytesProcessed |-> 0,
     percentComplete |-> 0]

ReportParked == progress = NoProgress

StatsParked == statsOut = [status |-> "none"]

\* phone.replace(/^["']+/, '')
RECURSIVE DropLeadingQuotes(_)
DropLeadingQuotes(s) ==
    IF s # <<>> /\ Head(s) \in QuoteChars THEN DropLeadingQuotes(Tail(s)) ELSE s

\* phone.replace(/["']+$/, '')
RECURSIVE DropTrailingQuotes(_)
DropTrailingQuotes(s) ==
    IF s # <<>> /\ s[Len(s)] \in QuoteChars
    THEN DropTrailingQuotes(SubSeq(s, 1, Len(s) - 1))
    ELSE s

\* phone.replace(/^["']+|["']+$/g, '')
StripQuotes(s) == DropTrailingQuotes(DropLeadingQuotes(s))

\* s.replace(/\D/g, '')
IsDigit(c) == c \in Digits

StripNonDigits(s) == SelectSeq(s, IsDigit)

\* s.substring(0, 3)
substring03(s) == SubSeq(s, 1, IF Len(s) < 3 THEN Len(s) ELSE 3)

-----------------------------------------------------------------------------
(* normalizePhone, indexer.service.ts 451-471 *)

\* the leading '8' of an 11-digit number is kept
normalizePhone_Keep8(phone) ==
    IF phone = <<>> \/ phone = Null THEN Null
    ELSE LET digits == StripNonDigits(StripQuotes(phone)) IN
         IF Len(digits) >= 10 /\ Len(digits) <= 12
         THEN IF Len(digits) = 10 THEN <<"7">> \o digits
              ELSE IF Len(digits) = 11
                   THEN IF digits[1] = "8" THEN digits
                        ELSE IF digits[1] = "7" THEN digits
                        ELSE Null
                   ELSE Null
         ELSE Null

\* a 10-digit number gets the trunk prefix '8'
normalizePhone_Prepend8(phone) ==
    IF phone = <<>> \/ phone = Null THEN Null
    ELSE LET digits == StripNonDigits(StripQuotes(phone)) IN
         IF Len(digits) >= 10 /\ Len(digits) <= 12
         THEN IF Len(digits) = 10 THEN <<"8">> \o digits
              ELSE IF Len(digits) = 11
                   THEN IF digits[1] = "8" THEN <<"7">> \o Tail(digits)
                        ELSE IF digits[1] = "7" THEN digits
                        ELSE Null
                   ELSE Null
         ELSE Null

\* 451-471
normalizePhone(phone) ==
    IF phone = <<>> \/ phone = Null THEN Null
    ELSE LET digits == StripNonDigits(StripQuotes(phone)) IN
         IF Len(digits) >= 10 /\ Len(digits) <= 12
         THEN IF Len(digits) = 10 THEN <<"7">> \o digits
              ELSE IF Len(digits) = 11
                   THEN IF digits[1] = "8" THEN <<"7">> \o Tail(digits)
                        ELSE IF digits[1] = "7" THEN digits
                        ELSE Null
                   ELSE Null
         ELSE Null

(* The inline normalization of findByPhone, indexer.service.ts 667-686:    *)
(* the canonical phone the lookup uses, or Null where it throws            *)
(* NotFoundException("Неверный формат номера телефона").                   *)
searchNormalize(phone) ==
    LET stripped == IF phone = <<>> THEN <<>> ELSE StripNonDigits(phone)
        from8    == IF stripped # <<>> /\ stripped[1] = "8" /\ Len(stripped) = 11
                    THEN <<"7">> \o Tail(stripped)
                    ELSE stripped
        from10   == IF Len(from8) = 10 /\ from8[1] = "9"
                    THEN <<"7">> \o from8
                    ELSE from8
    IN  IF from10 = <<>> \/ Len(from10) # 11 \/ from10[1] # "7"
        THEN Null
        ELSE from10

-----------------------------------------------------------------------------
(* The S3 bucket and point lookup *)

\* f with key k bound to v (a JavaScript property assignment, an S3 put)
Put(f, k, v) == [x \in (DOMAIN f) \cup {k} |-> IF x = k THEN v ELSE f[x]]

(* prefixExists("<db>/"), indexer.service.ts 80-93: listObjectsV2 finds any *)
(* key that starts with "<db>/"                                            *)
dbExists(db) ==
    \/ db \in folders
    \/ \E m \in markers : m[1] = db
    \/ \E b \in DOMAIN blobs : b[1] = db
    \/ db \in DOMAIN meta

\* prefixExists("<db>/<prefix>/")
prefixExists(db, prefix) ==
    \/ <<db, prefix>> \in markers
    \/ <<db, prefix>> \in DOMAIN blobs

StoreEmpty ==
    /\ folders = {}
    /\ markers = {}
    /\ blobs = <<>>
    /\ meta = <<>>

\* normalizedPhone.substring(0, 3) of 690
lookupPrefix(normalizedPhone) == substring03(normalizedPhone)

(* findByPhone, indexer.service.ts 651-761, on the bucket as it stands.    *)
(* error names the exception class thrown, status the case.                *)
findByPhone(databaseId, phone) ==
    IF ~dbExists(databaseId)
    THEN [status |-> "DatabaseNotFound", error |-> "NotFoundException"]
    ELSE LET normalizedPhone == searchNormalize(phone) IN
         IF normalizedPhone = Null
         THEN [status |-> "InvalidPhone", error |-> "NotFoundException"]
         ELSE LET prefix == lookupPrefix(normalizedPhone) IN
              IF ~prefixExists(databaseId, prefix)
              THEN [status |-> "PrefixNotFound",
                    error |-> "PhoneNumberNotFoundException"]
              ELSE IF <<databaseId, prefix>> \notin DOMAIN blobs
              THEN [status |-> "DataUnreadable", error |-> "NotFoundException"]
              ELSE LET data == blobs[<<databaseId, prefix>>] IN
                   IF normalizedPhone \in DOMAIN data
                   THEN [status |-> "ok", error |-> "none",
                         record |-> data[normalizedPhone]]
                   ELSE [status |-> "RecordNotFound",
                         error |-> "PhoneNumberNotFoundException"]

-----------------------------------------------------------------------------
(* SpecIngest: createIndex, indexer.service.ts 261-449 *)

\* 'line' events delivered in one behaviour
MaxLines == 4

\* the chunk threshold, scaled down from CHUNK_SIZE = 50000
ChunkSize == 2

\* createIndex calls made in one behaviour
MaxCalls == 2

\* failures injected in one behaviour
MaxFaults == 1

PARTITION_SIZE == 10000

DBs == {"d1", "d2"}

(* A source line: its column separator, its number of columns and its     *)
(* fifth column (<<>> where it has none).                                  *)
SourceLine(sep, fields, phone) == [sep |-> sep, fields |-> fields, phone |-> phone]

\* the rows a '|'-separated source is made of
RowKinds ==
    { [fields |-> 5, phone |-> <<"9","9","9","1","2","3","4","5","6","7">>],
      [fields |-> 5, phone |-> <<"8","9","9","9","1","2","3","4","5","6","8">>],
      [fields |-> 5, phone |-> <<"7","9","9","9","1","2","3","4","5","6","9">>],
      [fields |-> 5, phone |-> <<"4","9","5","1","2","3","4","5","6","7">>],
      [fields |-> 5, phone |-> <<"1","2","3","4","5">>],
      [fields |-> 3, phone |-> <<>>] }

LineKinds == {SourceLine("|", r.fields, r.phone) : r \in RowKinds}

\* rawData.split('|').length, 362: a line without '|' is one field
splitFields(line) == IF line.sep = "|" THEN line.fields ELSE 1

\* resetStats, 502-518
resetStats == [processedLines |-> 0, recordsFound |-> 0, prefixesFound |-> {}]

NoMetadata == [totalRecords |-> 0, partitionsCount |-> 0, partitionSize |-> 0]

\* the metadata object of 297-305
newMetadata ==
    [totalRecords |-> 0, partitionsCount |-> 0, partitionSize |-> PARTITION_SIZE]

\* Math.floor(a / b)
ceilDiv_Floor(a, b) == a \div b

\* Math.ceil(a / b) for a >= 0, b > 0
ceilDiv(a, b) == (a + b - 1) \div b

\* the record stored for a line, extractPipeDelimitedData 473-500
extractPipeDelimitedData(line) ==
    LET normalizedPhone == normalizePhone(line.phone) IN
    [phone |-> IF normalizedPhone = Null THEN <<>> ELSE normalizedPhone]

\* a bucketing that skips the country digit: phone.substring(1, 4)
firstDigits_SkipCountry(phone) == SubSeq(phone, 2, 4)

\* phone.substring(0, 3) of 381
firstDigits(phone) == substring03(phone)

DigitVal(c) == CHOOSE i \in 0..9 : DigitSeq[i + 1] = c

PrefixNum(p) == 100 * DigitVal(p[1]) + 10 * DigitVal(p[2]) + DigitVal(p[3])

(* Object.keys(buffer): the prefixes are integer-like property names,      *)
(* which JavaScript enumerates in ascending numeric order.                 *)
RECURSIVE SortedKeys(_)
SortedKeys(S) ==
    IF S = {} THEN <<>>
    ELSE LET least == CHOOSE p \in S : \A q \in S : PrefixNum(p) <= PrefixNum(q)
         IN  <<least>> \o SortedKeys(S \ {least})

ObjectKeys(obj) == SortedKeys(DOMAIN obj)

\* a guard that never finds the flag set
BusyCheck_Never == FALSE

\* the guard of 262-265
BusyCheck == indexingInProgress

ActivePcs == {"size", "mkdir", "open", "stream", "closeflush", "meta"}

\* the object a flush holds: the one still bound to `buffer`, or its own
FlushObject(f) == IF f.live THEN buffer ELSE f.obj

(* When `buffer` is rebound (buffer = {}, or the closure ends) the flushes  *)
(* that hold the old object keep it; no handler writes to it again.        *)
Detach(fs) ==
    { IF f.live THEN [f EXCEPT !.live = FALSE, !.obj = buffer] ELSE f : f \in fs }

(* saveBufferToS3 called, 565-571 up to the first await.  id tells the     *)
(* invocations apart: the number of the line whose handler made the call,  *)
(* 0 for the 'close' handler's.                                            *)
NewFlush(id, origin, obj) ==
    [id |-> id, origin |-> origin, run |-> runCall, db |-> runDb, live |-> TRUE,
     obj |-> <<>>, keys |-> ObjectKeys(obj), stage |-> "folder", body |-> <<>>]

SetResult(result) == [calls EXCEPT ![runCall].result = result]

\* a busy check placed after resetStats
CreateIndexBusy_Resets(d) ==
    /\ BusyCheck
    /\ Len(calls) < MaxCalls
    /\ stats' = resetStats
    /\ calls' = Append(calls, [db |-> d, result |-> "Busy", flushFailed |-> FALSE,
                            written |-> {}, overlap |-> FALSE])
    /\ UNCHANGED <<notIngest, storeVars, indexingInProgress, pc, runDb, runCall,
                   isFirstLine, buffer, processed, metadata, flushes, indexed,
                   linesRead, faults>>

\* createIndex called while the flag is set: 262-265
CreateIndexBusy(d) ==
    /\ BusyCheck
    /\ Len(calls) < MaxCalls
    /\ calls' = Append(calls, [db |-> d, result |-> "Busy", flushFailed |-> FALSE,
                            written |-> {}, overlap |-> FALSE])
    /\ UNCHANGED <<notIngest, storeVars, indexingInProgress, stats, pc, runDb, runCall,
                   isFirstLine, buffer, processed, metadata, flushes, indexed,
                   linesRead, faults>>

\* createIndex called with the flag clear: 267-275, up to await getObjectSize
CreateIndexStart(d) ==
    /\ ~BusyCheck
    /\ Len(calls) < MaxCalls
    /\ calls = <<>> => d = "d1"
    /\ indexingInProgress' = TRUE
    /\ stats' = resetStats
    /\ calls' = Append(calls, [db |-> d, result |-> "pending", flushFailed |-> FALSE,
                                written |-> {}, overlap |-> FALSE])
    /\ runCall' = Len(calls) + 1
    /\ runDb' = d
    /\ pc' = "size"
    /\ isFirstLine' = TRUE
    /\ buffer' = <<>>
    /\ processed' = 0
    /\ metadata' = NoMetadata
    /\ indexed' = {}
    /\ UNCHANGED <<notIngest, storeVars, flushes, linesRead, faults>>

\* the closure ends with its caller settled
EndRun(result) ==
    /\ calls' = SetResult(result)
    /\ pc' = "idle"
    /\ flushes' = Detach(flushes)
    /\ buffer' = <<>>
    /\ processed' = 0
    /\ isFirstLine' = TRUE

\* getObjectSize resolves: 275-277, 284-290
SizeOk ==
    /\ pc = "size"
    /\ pc' = "mkdir"
    /\ UNCHANGED <<notIngest, storeVars, indexingInProgress, stats, runDb, runCall, isFirstLine,
                   buffer, processed, metadata, flushes, calls, indexed, linesRead,
                   faults>>

\* getObjectSize rejects: 278-282
SizeFail ==
    /\ pc = "size"
    /\ faults < MaxFaults
    /\ faults' = faults + 1
    /\ indexingInProgress' = FALSE
    /\ EndRun("rejected")
    /\ UNCHANGED <<notIngest, storeVars, stats, runDb, runCall, metadata, indexed, linesRead>>

\* createFolder(databaseFolder) resolves: 290, 297-320
MkdirOk ==
    /\ pc = "mkdir"
    /\ folders' = folders \cup {runDb}
    /\ metadata' = newMetadata
    /\ pc' = "open"
    /\ UNCHANGED <<notIngest, markers, blobs, meta, indexingInProgress, stats, runDb, runCall,
                   isFirstLine, buffer, processed, flushes, calls, indexed, linesRead,
                   faults>>

\* createFolder(databaseFolder) rejects: 291-295
MkdirFail ==
    /\ pc = "mkdir"
    /\ faults < MaxFaults
    /\ faults' = faults + 1
    /\ indexingInProgress' = FALSE
    /\ EndRun("rejected")
    /\ UNCHANGED <<notIngest, storeVars, stats, runDb, runCall, metadata, indexed, linesRead>>

\* the selectors of CreateIndexDto.encoding
Selectors == {"auto", "utf8", "windows1251", "koi8r", "iso88595"}

\* encodingMap[encoding] || encoding, 331-336
iconvEncoding(selector) ==
    CASE selector = "windows1251" -> "win1251"
      [] selector = "koi8r"       -> "koi8-r"
      [] selector = "iso88595"    -> "iso-8859-5"
      [] OTHER                    -> selector

\* the names above that iconv-lite has a codec for; decodeStream throws
\* "Encoding not recognized" for any other name
IconvCodecs == {"utf8", "win1251", "koi8-r", "iso-8859-5"}

\* 328-338: the stream is read as it is, or through a codec iconv-lite has
CodecResolved == encoding = "utf8" \/ iconvEncoding(encoding) \in IconvCodecs

\* getObject resolves with a body: 317-345
OpenOk ==
    /\ pc = "open"
    /\ CodecResolved
    /\ pc' = "stream"
    /\ UNCHANGED <<notIngest, storeVars, indexingInProgress, stats, runDb, runCall, isFirstLine,
                   buffer, processed, metadata, flushes, calls, indexed, linesRead,
                   faults>>

\* getObject rejects or the body is empty: 322-324, 442-447
OpenFail ==
    /\ pc = "open"
    /\ faults < MaxFaults
    /\ faults' = faults + 1
    /\ indexingInProgress' = FALSE
    /\ EndRun("rejected")
    /\ UNCHANGED <<notIngest, storeVars, stats, runDb, runCall, metadata, indexed, linesRead>>

\* getObject resolves and iconv.decodeStream throws: 337, 442-447
OpenCodecFail ==
    /\ pc = "open"
    /\ ~CodecResolved
    /\ indexingInProgress' = FALSE
    /\ EndRun("rejected")
    /\ UNCHANGED <<notIngest, storeVars, stats, runDb, runCall, metadata, indexed, linesRead,
                   faults>>

\* a line is indexed whatever its phone field holds
Indexable_AnyPhone(line) ==
    /\ splitFields(line) >= 5
    /\ line.phone # <<>>

\* a line the handler indexes: 373-380
Indexable(line) ==
    /\ splitFields(line) >= 5
    /\ line.phone # <<>>
    /\ normalizePhone(line.phone) # Null

\* the 'line' handler up to its first await: 347-397
Line(line) ==
    /\ pc = "stream"
    /\ linesRead < MaxLines
    /\ linesRead' = linesRead + 1
    /\ LET counted == [stats EXCEPT !.processedLines = @ + 1] IN
       IF isFirstLine
       THEN /\ isFirstLine' = FALSE
            /\ stats' = counted
            /\ UNCHANGED <<buffer, processed, flushes, indexed>>
       ELSE IF Indexable(line)
       THEN LET phone      == normalizePhone(line.phone)
                prefix     == firstDigits(phone)
                bucket     == IF prefix \in DOMAIN buffer THEN buffer[prefix] ELSE <<>>
                buffer1    == Put(buffer, prefix,
                                  Put(bucket, phone, extractPipeDelimitedData(line)))
            IN  /\ stats' = [counted EXCEPT !.recordsFound = @ + 1,
                                            !.prefixesFound = @ \cup {prefix}]
                /\ buffer' = buffer1
                /\ processed' = processed + 1
                /\ indexed' = indexed \cup {phone}
                /\ flushes' = IF processed + 1 >= chunkSize
                              THEN flushes \cup {NewFlush(linesRead + 1, "line", buffer1)}
                              ELSE flushes
                /\ UNCHANGED isFirstLine
       ELSE /\ stats' = counted
            /\ UNCHANGED <<isFirstLine, buffer, processed, flushes, indexed>>
    /\ calls' = IF \E f \in flushes : f.origin = "line" /\ f.run = runCall
                THEN [calls EXCEPT ![runCall].overlap = TRUE]
                ELSE calls
    /\ UNCHANGED <<notIngest, storeVars, indexingInProgress, pc, runDb, runCall, metadata,
                   faults>>

\* an 'error' handler that saves the metadata gathered so far, then rejects
StreamError_SavesMeta ==
    /\ pc = "stream"
    /\ faults < MaxFaults
    /\ faults' = faults + 1
    /\ meta' = Put(meta, runDb, metadata)
    /\ indexingInProgress' = FALSE
    /\ EndRun("rejected")
    /\ UNCHANGED <<notIngest, folders, markers, blobs, stats, runDb, runCall, metadata,
                   indexed, linesRead>>

\* the 'error' handler: 436-441
StreamError ==
    /\ pc = "stream"
    /\ faults < MaxFaults
    /\ faults' = faults + 1
    /\ indexingInProgress' = FALSE
    /\ EndRun("rejected")
    /\ UNCHANGED <<notIngest, storeVars, stats, runDb, runCall, metadata, indexed, linesRead>>

\* metadata totals of 418-419, then saveMetadata is awaited
finalMetadata ==
    [metadata EXCEPT !.totalRecords = stats.recordsFound,
                     !.partitionsCount = ceilDiv(stats.recordsFound, PARTITION_SIZE)]

\* the 'close' handler up to its first store await: 408-422
Close ==
    /\ pc = "stream"
    /\ IF buffer # <<>>
       THEN /\ flushes' = flushes \cup {NewFlush(0, "close", buffer)}
            /\ pc' = "closeflush"
            /\ UNCHANGED metadata
       ELSE /\ metadata' = finalMetadata
            /\ pc' = "meta"
            /\ UNCHANGED flushes
    /\ UNCHANGED <<notIngest, storeVars, indexingInProgress, stats, runDb, runCall, isFirstLine,
                   buffer, processed, calls, indexed, linesRead, faults>>

(* saveBufferToS3 returns to the handler that awaits it.  The 'line'       *)
(* handler goes on with buffer = {}; processed = 0 (395-396), which        *)
(* touches the closure of its own call only; the 'close' handler goes on   *)
(* to the metadata (418-422).                                              *)
Resume(f) ==
    IF f.origin = "close"
    THEN /\ flushes' = flushes \ {f}
         /\ metadata' = finalMetadata
         /\ pc' = "meta"
         /\ UNCHANGED <<buffer, processed>>
    ELSE IF f.run = runCall /\ pc \in ActivePcs \cup {"hung"}
    THEN /\ flushes' = Detach(flushes \ {f})
         /\ buffer' = <<>>
         /\ processed' = 0
         /\ UNCHANGED <<metadata, pc>>
    ELSE /\ flushes' = flushes \ {f}
         /\ UNCHANGED <<buffer, processed, metadata, pc>>

\* the loop of 567-578 moves to the next prefix, or the call returns
Advance(f) ==
    IF Len(f.keys) > 1
    THEN /\ flushes' = (flushes \ {f}) \cup
                       {[f EXCEPT !.keys = Tail(@), !.stage = "folder", !.body = <<>>]}
         /\ UNCHANGED <<buffer, processed, metadata, pc>>
    ELSE Resume(f)

(* createFolder(prefixPath) resolves and writeJsonFile is called, which    *)
(* serializes buffer[prefix] as it is now: 571-574, 220-227                *)
FlushFolderOk(f) ==
    /\ f.stage = "folder"
    /\ markers' = markers \cup {<<f.db, Head(f.keys)>>}
    /\ flushes' = (flushes \ {f}) \cup
                  {[f EXCEPT !.stage = "write", !.body = FlushObject(f)[Head(f.keys)]]}
    /\ UNCHANGED <<notIngest, folders, blobs, meta, indexingInProgress, stats, pc, runDb, runCall,
                   isFirstLine, buffer, processed, metadata, calls, indexed, linesRead,
                   faults>>

\* createFolder(prefixPath) rejects: the prefix is logged and skipped, 575-577
FlushFolderFail(f) ==
    /\ f.stage = "folder"
    /\ faults < MaxFaults
    /\ faults' = faults + 1
    /\ Advance(f)
    /\ calls' = [calls EXCEPT ![f.run].flushFailed = TRUE]
    /\ UNCHANGED <<notIngest, storeVars, indexingInProgress, stats, runDb, runCall, isFirstLine,
                   indexed, linesRead>>

\* the put of data.json lands: the object is replaced, 222-227
FlushWriteOk(f) ==
    /\ f.stage = "write"
    /\ blobs' = Put(blobs, <<f.db, Head(f.keys)>>, f.body)
    /\ calls' = [calls EXCEPT ![f.run].written = @ \cup DOMAIN f.body]
    /\ Advance(f)
    /\ UNCHANGED <<notIngest, folders, markers, meta, indexingInProgress, stats, runDb, runCall,
                   isFirstLine, indexed, linesRead, faults>>

\* the put of data.json fails and ends the flush: no try inside the loop
FlushWriteFail_Abort(f) ==
    /\ f.stage = "write"
    /\ faults < MaxFaults
    /\ faults' = faults + 1
    /\ Resume(f)
    /\ calls' = [calls EXCEPT ![f.run].flushFailed = TRUE]
    /\ UNCHANGED <<notIngest, storeVars, indexingInProgress, stats, runDb, runCall, isFirstLine,
                   indexed, linesRead>>

\* the put of data.json fails: logged and skipped, 575-577
FlushWriteFail(f) ==
    /\ f.stage = "write"
    /\ faults < MaxFaults
    /\ faults' = faults + 1
    /\ Advance(f)
    /\ calls' = [calls EXCEPT ![f.run].flushFailed = TRUE]
    /\ UNCHANGED <<notIngest, storeVars, indexingInProgress, stats, runDb, runCall, isFirstLine,
                   indexed, linesRead>>

\* saveMetadata resolves and the 'close' handler finishes: 422-433
MetaOk ==
    /\ pc = "meta"
    /\ meta' = Put(meta, runDb, metadata)
    /\ indexingInProgress' = FALSE
    /\ EndRun("resolved")
    /\ UNCHANGED <<notIngest, folders, markers, blobs, stats, runDb, runCall, metadata, indexed,
                   linesRead, faults>>

(* saveMetadata rejects (585-587) inside the 'close' handler, an async     *)
(* function whose promise nobody holds: the lines after 422 never run,     *)
(* neither resolve nor reject is called and the flag stays set.            *)
MetaFail ==
    /\ pc = "meta"
    /\ faults < MaxFaults
    /\ faults' = faults + 1
    /\ pc' = "hung"
    /\ UNCHANGED <<notIngest, storeVars, indexingInProgress, stats, runDb, runCall, isFirstLine,
                   buffer, processed, metadata, flushes, calls, indexed, linesRead>>

IngestParked ==
    /\ indexingInProgress = FALSE
    /\ stats = resetStats
    /\ pc = "idle"
    /\ runDb = "none"
    /\ runCall = 0
    /\ isFirstLine = TRUE
    /\ buffer = <<>>
    /\ processed = 0
    /\ metadata = NoMetadata
    /\ flushes = {}
    /\ calls = <<>>
    /\ indexed = {}
    /\ linesRead = 0
    /\ faults = 0

IngestInit ==
    /\ NormParked /\ StoreEmpty /\ IngestParked /\ CallParked /\ FedParked
    /\ ProgParked /\ LookParked /\ StatsParked /\ ReportParked
    /\ chunkSize = ChunkSize
    /\ source = <<>>
    /\ encoding = "utf8"

IngestNext ==
    \/ \E d \in DBs : CreateIndexBusy(d)
    \/ \E d \in DBs : CreateIndexStart(d)
    \/ SizeOk
    \/ SizeFail
    \/ MkdirOk
    \/ MkdirFail
    \/ OpenOk
    \/ OpenFail
    \/ \E line \in LineKinds : Line(line)
    \/ StreamError
    \/ Close
    \/ \E f \in flushes : FlushFolderOk(f)
    \/ \E f \in flushes : FlushFolderFail(f)
    \/ \E f \in flushes : FlushWriteOk(f)
    \/ \E f \in flushes : FlushWriteFail(f)
    \/ MetaOk
    \/ MetaFail

SpecIngest == IngestInit /\ [][IngestNext]_vars

-----------------------------------------------------------------------------
(* Claims on ingestion *)

IsCanonical(k) ==
    /\ Len(k) = 11
    /\ \A i \in 1..Len(k) : k[i] \in Digits
    /\ k[1] = "7"

\* the calls whose caller has neither a result nor a failure yet
ActiveCalls == {i \in 1..Len(calls) : calls[i].result = "pending"}

\* the last run started has resolved with its metadata
RunResolved ==
    /\ pc = "idle"
    /\ runCall > 0
    /\ calls[runCall].result = "resolved"

(* C1: after a createIndex run for a database has completed successfully,  *)
(* every phone the run counted as indexed is found by point lookup in that *)
(* database, and the record returned carries that phone.                   *)
C1_RoundTrip ==
    RunResolved =>
        \A k \in indexed :
            LET r == findByPhone(runDb, k) IN
            /\ r.status = "ok"
            /\ r.record.phone = k

(* C2: at most one createIndex run is active at any time, and a call made  *)
(* while a run is active (same or another database) gets Busy at once,     *)
(* with the source, the store and the active run left as they were.        *)
C2_AtMostOneActive ==
    /\ Cardinality(ActiveCalls) <= 1
    /\ ActiveCalls # {} => indexingInProgress

C2_CallWhileActive ==
    (Len(calls') > Len(calls) /\ ActiveCalls # {}) =>
        /\ calls'[Len(calls')].result = "Busy"
        /\ SubSeq(calls', 1, Len(calls)) = calls
        /\ UNCHANGED <<storeVars, indexingInProgress, stats, pc, runDb, runCall,
                       isFirstLine, buffer, processed, metadata, flushes, indexed,
                       linesRead, faults>>

\* C2: at most one active run in every state, Busy for every call made meanwhile
C2_Exclusive == [](C2_AtMostOneActive) /\ [][C2_CallWhileActive]_vars

\* a call for another database was turned away while a run was streaming
C2_Witness ==
    \E i, j \in 1..Len(calls) :
        /\ calls[i].result = "pending"
        /\ calls[j].result = "Busy"
        /\ calls[j].db # calls[i].db
        /\ pc = "stream"

(* C3: a run that set the busy flag ends, on every path, with the flag     *)
(* released and its caller settled: it never comes to rest, no handler or  *)
(* store operation of it pending, with the flag still set or the caller    *)
(* still waiting.                                                          *)
C3_BusyFlagReleased ==
    pc \notin ActivePcs => (~indexingInProgress /\ ActiveCalls = {})

Aborted(i) == calls[i].result = "rejected"

\* the metadata record of a database is put
MetaWritten == meta' # meta

(* C14: the metadata record is written only at the end of a complete pass, *)
(* by the step that resolves the run; a run that aborted has written none, *)
(* though blobs it flushed before the abort may remain.                    *)
C14_NoPartialMetadata ==
    /\ [][MetaWritten =>
            /\ pc = "meta"
            /\ calls'[runCall].result = "resolved"
            /\ meta' = Put(meta, runDb, finalMetadata)]_vars
    /\ [](\A d \in DOMAIN meta :
            \E i \in 1..Len(calls) : calls[i].db = d /\ calls[i].result = "resolved")

\* a read error aborted a run that had flushed a blob; no metadata exists
C14_Witness ==
    /\ runCall = 1
    /\ Aborted(1)
    /\ faults = 1
    /\ ~calls[1].flushFailed
    /\ blobs # <<>>
    /\ meta = <<>>

(* C15: a run one of whose partition writes failed does not complete       *)
(* successfully: its caller never receives the metadata.                   *)
C15_WriteFailureSurfaced ==
    \A i \in 1..Len(calls) : calls[i].flushFailed => calls[i].result # "resolved"

(* C16: a first run that fails while the size of the source is determined  *)
(* or while the source is opened leaves the bucket as it found it: no      *)
(* database container, no partition blob, no metadata record.              *)
C16_OpenFailureNoSideEffect ==
    [][(runCall = 1 /\ pc \in {"size", "open"} /\ pc' = "idle") => StoreEmpty']_vars

(* C10: every key of the blob (databaseId, p) is a canonical phone whose   *)
(* first three digits are p, two keys of one database that share their     *)
(* first three digits are in the same blob, and point lookup of a key      *)
(* reads the blob it is stored in.                                         *)
C10_PartitionDeterminism ==
    /\ \A b \in DOMAIN blobs : \A k \in DOMAIN blobs[b] :
          /\ IsCanonical(k)
          /\ substring03(k) = b[2]
          /\ <<b[1], lookupPrefix(searchNormalize(k))>> = b
    /\ \A b1, b2 \in DOMAIN blobs :
          \A k1 \in DOMAIN blobs[b1], k2 \in DOMAIN blobs[b2] :
              (b1[1] = b2[1] /\ substring03(k1) = substring03(k2)) => b1 = b2

\* a database with two blobs, one of them holding two phones
C10_Witness ==
    \E b1, b2 \in DOMAIN blobs :
        /\ b1[1] = b2[1]
        /\ b1 # b2
        /\ Cardinality(DOMAIN blobs[b1]) >= 2

(* C28: every metadata record in the store has partitionsCount equal to   *)
(* ceil(totalRecords / partitionSize) for its own partitionSize, 0 for 0   *)
(* records.                                                                *)
C28_Arithmetic ==
    \A d \in DOMAIN meta :
        LET m == meta[d] IN
        /\ m.partitionSize > 0
        /\ m.partitionsCount * m.partitionSize >= m.totalRecords
        /\ (m.partitionsCount - 1) * m.partitionSize < m.totalRecords

\* the metadata is put by the 'close' handler past its flush: no
\* saveBufferToS3 call of that handler is in flight
C28_AfterEndFlush ==
    MetaWritten =>
        /\ pc = "meta"
        /\ \A f \in flushes : f.origin # "close"
        /\ meta' = Put(meta, runDb, finalMetadata)

(* C28: in every metadata record written by a successful run,             *)
(* partitionsCount = ceil(totalRecords / partitionSize) for the            *)
(* partitionSize of the same record, and the record is written only after  *)
(* the stream-end flush.                                                   *)
C28_FinalizeArithmetic == [](C28_Arithmetic) /\ [][C28_AfterEndFlush]_vars

\* a run that flushed at stream end wrote one partition for its records, and
\* a run without records wrote none
C28_Witness ==
    /\ DOMAIN meta = DBs
    /\ meta["d1"].totalRecords = 0 /\ meta["d1"].partitionsCount = 0
    /\ meta["d2"].totalRecords >= 2 /\ meta["d2"].partitionsCount = 1
    /\ \E b \in DOMAIN blobs : b[1] = "d2"

\* a createIndex run for database d has resolved and none of its partition
\* writes is still in flight
Completed(d) ==
    \E i \in 1..Len(calls) :
        /\ calls[i].db = d
        /\ calls[i].result = "resolved"
        /\ \A f \in flushes : f.run # i

(* C30: once a run for a database has completed, no later step changes the *)
(* metadata record of that database or the content of any of its blobs.    *)
C30_WriteOnce ==
    [][\A d \in DBs :
          Completed(d) =>
              /\ d \in DOMAIN meta' /\ meta'[d] = meta[d]
              /\ \A b \in DOMAIN blobs :
                    b[1] = d => b \in DOMAIN blobs' /\ blobs'[b] = blobs[b]]_vars

\* the step of a createIndex call that is turned away
BusyStep ==
    /\ Len(calls') = Len(calls) + 1
    /\ calls'[Len(calls')].result = "Busy"

(* C35: a createIndex call rejected as Busy leaves the flag set, the       *)
(* counters of the active run at their values, and every container,        *)
(* partition blob and metadata record as it was.                           *)
C35_BusyChangesNothing ==
    [][BusyStep =>
          /\ indexingInProgress /\ indexingInProgress'
          /\ stats'.processedLines = stats.processedLines
          /\ stats'.recordsFound = stats.recordsFound
          /\ stats'.prefixesFound = stats.prefixesFound
          /\ folders' = folders /\ markers' = markers
          /\ blobs' = blobs /\ meta' = meta
          /\ flushes' = flushes /\ buffer' = buffer /\ pc' = pc]_vars

\* a call was turned away by a run that had counted lines and records and
\* had stored a partition
C35_Witness ==
    /\ Len(calls) = 2
    /\ calls[2].result = "Busy"
    /\ calls[1].result = "pending"
    /\ stats.recordsFound >= 2
    /\ stats.processedLines >= 3
    /\ DOMAIN blobs # {}

\* the step that resolves the run in course
Resolves ==
    /\ runCall > 0
    /\ calls[runCall].result = "pending"
    /\ calls'[runCall].result = "resolved"

OwnFlushes == {f \in flushes : f.run = runCall}

(* C32: when createIndex has resolved, with the metadata written and the   *)
(* flag released, no partition write of that run is still in flight;       *)
(* stated for runs without store failure.                                  *)
C32_MetadataLast == (RunResolved /\ faults = 0) => OwnFlushes = {}

\* the records held by the object bound to `buffer`
Buffered == UNION { {<<p, k>> : k \in DOMAIN buffer[p]} : p \in DOMAIN buffer }

(* C33: the buffer never holds more records than the chunk threshold, and  *)
(* neither does the counter `processed`.                                   *)
C33_BoundedBuffer ==
    /\ processed <= chunkSize
    /\ Cardinality(Buffered) <= chunkSize

-----------------------------------------------------------------------------
(* SpecNorm: the two normalizations applied to bounded raw inputs *)

\* the longest run of filler digits appended to a leading digit
MaxFill == 12

\* n filler digits "1234567890123..."
Fill(n) == [i \in 1..n |-> DigitSeq[(i % 10) + 1]]

Leads == {<<>>, <<"7">>, <<"8">>, <<"9">>, <<"4">>}

\* "8-999-123-45-67": a dash after the 1st, 4th, 7th and 9th character
RECURSIVE Dashed(_, _)
Dashed(s, i) ==
    IF s = <<>> THEN <<>>
    ELSE IF i \in {1, 4, 7, 9} /\ Len(s) > 1
         THEN <<Head(s), "-">> \o Dashed(Tail(s), i + 1)
         ELSE <<Head(s)>> \o Dashed(Tail(s), i + 1)

Decorations == {"plain", "quoted", "dashed", "plus", "spaced"}

Decorate(d, s) ==
    CASE d = "plain"  -> s
      [] d = "quoted" -> <<"\"">> \o s \o <<"'">>
      [] d = "dashed" -> Dashed(s, 1)
      [] d = "plus"   -> <<"+">> \o s
      [] d = "spaced" -> <<" ">> \o s \o <<" ">>

\* the phone fields of the spec's scenarios A and B
ScenarioPhones ==
    { <<"9","9","9","1","2","3","4","5","6","7">>,
      <<"8","9","9","9","1","2","3","4","5","6","8">>,
      <<"7","9","9","9","1","2","3","4","5","6","9">>,
      <<"8","-","9","9","9","-","1","2","3","-","4","5","-","6","7">> }

RawInputs ==
    ScenarioPhones \cup
    { Decorate(d, lead \o Fill(n)) : d \in Decorations, lead \in Leads, n \in 0..MaxFill }

NormInit ==
    /\ input \in RawInputs
    /\ normOut = Unset
    /\ renormOut = Unset
    /\ searchOut = Unset
    /\ StoreEmpty /\ IngestParked /\ CallParked /\ FedParked /\ ProgParked
    /\ LookParked /\ StatsParked /\ ReportParked /\ ConfigParked

\* ingestion's normalization of the raw phone field
Normalize ==
    /\ normOut = Unset
    /\ normOut' = normalizePhone(input)
    /\ UNCHANGED <<input, renormOut, searchOut, notNorm>>

\* normalization applied again to what it returned
Renormalize ==
    /\ normOut # Unset
    /\ renormOut = Unset
    /\ renormOut' = normalizePhone(normOut)
    /\ UNCHANGED <<input, normOut, searchOut, notNorm>>

\* point lookup's normalization of the same raw string
SearchNormalize ==
    /\ searchOut = Unset
    /\ searchOut' = searchNormalize(input)
    /\ UNCHANGED <<input, normOut, renormOut, notNorm>>

NormNext ==
    \/ Normalize
    \/ Renormalize
    \/ SearchNormalize

SpecNorm == NormInit /\ [][NormNext]_vars

-----------------------------------------------------------------------------
(* Claims on normalization *)

\* the reference rule of the specification, on the digits of x
ReferenceRule(x) ==
    LET d == StripNonDigits(x) IN
    CASE Len(d) = 10                 -> <<"7">> \o d
      [] Len(d) = 11 /\ d[1] = "8"   -> [d EXCEPT ![1] = "7"]
      [] Len(d) = 11 /\ d[1] = "7"   -> d
      [] OTHER                       -> Null

(* C7: for every input string normalizePhone agrees with the reference     *)
(* rule (10 digits: '7' prepended; 11 digits led by '8': first digit       *)
(* replaced by '7'; 11 digits led by '7': unchanged; anything else         *)
(* rejected), and every accepted result has 11 digits and starts with '7'. *)
C7_NormalizeMatchesRule ==
    normOut # Unset =>
        /\ normOut = ReferenceRule(input)
        /\ normOut # Null => IsCanonical(normOut)

\* an '8'-led 11-digit input with separators was accepted
C7_Witness ==
    /\ normOut # Unset
    /\ normOut # Null
    /\ Len(StripNonDigits(input)) = 11
    /\ Len(input) > 11
    /\ StripNonDigits(input)[1] = "8"

(* C8: normalization is idempotent on what it accepts: normalizing an      *)
(* accepted result again returns the same canonical phone and never        *)
(* rejects it.                                                             *)
C8_Idempotent ==
    (renormOut # Unset /\ normOut # Null) =>
        /\ renormOut # Null
        /\ renormOut = normOut

\* a 10-digit input was accepted and normalized a second time
C8_Witness ==
    /\ renormOut # Unset
    /\ normOut # Null
    /\ Len(StripNonDigits(input)) = 10

(* C9: ingestion and point lookup derive the same canonical phone (or the  *)
(* same rejection) from every raw phone string.                            *)
C9_SameNormalization ==
    (normOut # Unset /\ searchOut # Unset) => searchOut = normOut

-----------------------------------------------------------------------------
(* The static store of the search specifications *)

\* databases in the bucket
MaxDbs == 6

\* S3 lists keys in lexicographic order
DbNames == <<"d1", "d2", "d3", "d4", "d5", "d6", "d7", "d8", "d9">>

(* What ingestion left of a database, seen from the phone searched:        *)
(*   hit         its blob for the prefix holds the phone                   *)
(*   other       its blob for the prefix holds another phone               *)
(*   empty       the container only (a run that ended before any flush)    *)
(*   unreadable  the prefix folder without data.json (the put failed)      *)
StoreKinds == {"hit", "other", "empty", "unreadable"}

\* raw phones searched: an '8'-led form, and a 10-digit form not led by '9'
SearchPhones ==
    { <<"8","9","9","9","1","2","3","4","5","6","8">>,
      <<"4","9","5","1","2","3","4","5","6","7">> }

\* another canonical phone of the same prefix
OtherPhone(k) == [k EXCEPT ![11] = IF @ = "0" THEN "1" ELSE "0"]

StoreOf(n, kinds, target) ==
    LET prefix == substring03(target)
        withBlob == {i \in 1..n : kinds[i] \in {"hit", "other"}}
    IN
    /\ folders = {DbNames[i] : i \in 1..n}
    /\ markers = {<<DbNames[i], prefix>> : i \in {j \in 1..n : kinds[j] # "empty"}}
    /\ blobs = [b \in {<<DbNames[i], prefix>> : i \in withBlob} |->
                  LET i == CHOOSE j \in withBlob : DbNames[j] = b[1]
                      k == IF kinds[i] = "hit" THEN target ELSE OtherPhone(target)
                  IN  [x \in {k} |-> [phone |-> k]]]
    /\ meta = [d \in {DbNames[i] : i \in withBlob} |->
                  [totalRecords |-> 1, partitionsCount |-> 1,
                   partitionSize |-> PARTITION_SIZE]]

SearchInit(phones) ==
    \E n \in 0..MaxDbs : \E kinds \in [1..n -> StoreKinds] : \E phone \in phones :
        /\ StoreOf(n, kinds, normalizePhone(phone))
        /\ phoneArg = phone
        /\ databases = <<>>
        /\ queried = {}

\* listFolders(''), 95-122: the top-level folders, in key order
listFolders == SelectSeq(SubSeq(DbNames, 1, Len(DbNames)), dbExists)

(* getAllDatabases, 958-969: the listing, or [] when the listing failed *)
getAllDatabases == {listFolders, <<>>}

-----------------------------------------------------------------------------
(* SpecFed: findByPhoneParallel, indexer.service.ts 763-827 *)

batchSize == 3

\* the null a batch promise resolves with when its database gave no match
NoMatch == [found |-> FALSE]

Min(a, b) == IF a < b THEN a ELSE b

\* databases.slice(i, i + batchSize - 1): the batch misses its last database
BatchOf_Narrow(i, dbs) == (i + 1)..Min(i + batchSize - 1, Len(dbs))

\* databases.slice(i, i + batchSize + 1): the batch takes one database more
BatchOf_Wide(i, dbs) == (i + 1)..Min(i + batchSize + 1, Len(dbs))

\* the indices (from 1) of databases.slice(i, i + batchSize), 778
BatchOf(i, dbs) == (i + 1)..Min(i + batchSize, Len(dbs))

\* batch.map(...) of 781: every promise starts at its 500 ms timer
StartBatch(i, dbs) == [j \in BatchOf(i, dbs) |-> [st |-> "timer", res |-> NoMatch]]

\* 763-781: the listing, the empty check, the first batch
FedCall ==
    /\ fedPc = "idle"
    /\ \E dbs \in getAllDatabases :
        /\ databases' = dbs
        /\ IF Len(dbs) = 0
           THEN /\ fedReturn' = [kind |-> "throw", error |-> "NotFoundException",
                                 status |-> "NoDatabases"]
                /\ fedPc' = "done"
                /\ UNCHANGED lookups
           ELSE /\ lookups' = StartBatch(0, dbs)
                /\ fedPc' = "batch"
                /\ UNCHANGED fedReturn
    /\ UNCHANGED <<notFed, phoneArg, queried, fedI, results, errors>>

\* 783-785: the timer fires and findByPhone is called
FedLookupStart(j) ==
    /\ fedPc = "batch"
    /\ lookups[j].st = "timer"
    /\ lookups' = [lookups EXCEPT ![j].st = "looking"]
    /\ queried' = queried \cup {databases[j]}
    /\ UNCHANGED <<notFed, phoneArg, databases, fedPc, fedI, results, errors, fedReturn>>

\* a lookup that fails rejects the whole call: no catch at 786
FedLookupEnd_Abort(j) ==
    /\ fedPc = "batch"
    /\ lookups[j].st = "looking"
    /\ LET r == findByPhone(databases[j], phoneArg) IN
       /\ lookups' = [lookups EXCEPT ![j] =
             [st |-> "done",
              res |-> IF r.status = "ok"
                      THEN [found |-> TRUE, database |-> databases[j],
                            record |-> r.record]
                      ELSE NoMatch]]
       /\ IF r.status = "ok" \/ r.error = "PhoneNumberNotFoundException"
          THEN UNCHANGED <<fedPc, fedReturn>>
          ELSE /\ fedPc' = "done"
               /\ fedReturn' = [kind |-> "throw", error |-> r.error,
                                status |-> r.status]
    /\ UNCHANGED <<notFed, callVars, fedI, results, errors>>

\* 785-802: findByPhone settles; the promise resolves with a match or null
FedLookupEnd(j) ==
    /\ fedPc = "batch"
    /\ lookups[j].st = "looking"
    /\ LET r == findByPhone(databases[j], phoneArg) IN
       /\ lookups' = [lookups EXCEPT ![j] =
             [st |-> "done",
              res |-> IF r.status = "ok"
                      THEN [found |-> TRUE, database |-> databases[j],
                            record |-> r.record]
                      ELSE NoMatch]]
       /\ errors' = IF r.status = "ok" \/ r.error = "PhoneNumberNotFoundException"
                    THEN errors
                    ELSE Append(errors, [database |-> databases[j], status |-> r.status])
    /\ UNCHANGED <<notFed, callVars, fedPc, fedI, results, fedReturn>>

\* the matches of a batch, last database first
RECURSIVE Matches_Reversed(_, _)
Matches_Reversed(ls, j) ==
    IF j \notin DOMAIN ls THEN <<>>
    ELSE Matches_Reversed(ls, j + 1) \o (IF ls[j].res.found THEN <<ls[j].res>> ELSE <<>>)

\* batchResults.filter(Boolean), 806, in the order of the batch
RECURSIVE Matches(_, _)
Matches(ls, j) ==
    IF j \notin DOMAIN ls THEN <<>>
    ELSE (IF ls[j].res.found THEN <<ls[j].res>> ELSE <<>>) \o Matches(ls, j + 1)

\* the loop never breaks
foundResult_Never(rs) == FALSE

\* results.length > 0, 808
foundResult(rs) == Len(rs) > 0

(* 805-819: Promise.all resolves; break on a match, else the next batch;   *)
(* after the loop, the first result or PhoneNumberNotFoundException        *)
FedBatchEnd ==
    /\ fedPc = "batch"
    /\ \A j \in DOMAIN lookups : lookups[j].st = "done"
    /\ LET results1 == results \o Matches(lookups, fedI + 1) IN
       /\ results' = results1
       /\ IF ~foundResult(results1) /\ fedI + batchSize < Len(databases)
          THEN /\ fedI' = fedI + batchSize
               /\ lookups' = StartBatch(fedI + batchSize, databases)
               /\ UNCHANGED <<fedReturn, fedPc>>
          ELSE /\ fedReturn' =
                     IF Len(results1) = 0
                     THEN [kind |-> "throw",
                           error |-> "PhoneNumberNotFoundException",
                           status |-> "RecordNotFound"]
                     ELSE [kind |-> "return", value |-> results1[1]]
               /\ fedPc' = "done"
               /\ UNCHANGED <<fedI, lookups>>
    /\ UNCHANGED <<notFed, callVars, errors>>

\* the phone searched: a raw '8'-led form of an indexed phone
FedPhones == {p \in SearchPhones : p[1] = "8"}

FedInit ==
    /\ NormParked /\ IngestParked /\ SearchInit(FedPhones) /\ FedParked
    /\ ProgParked /\ LookParked /\ StatsParked /\ ReportParked /\ ConfigParked

FedNext ==
    \/ FedCall
    \/ \E j \in DOMAIN lookups : FedLookupStart(j)
    \/ \E j \in DOMAIN lookups : FedLookupEnd(j)
    \/ FedBatchEnd

SpecFed == FedInit /\ [][FedNext]_vars

-----------------------------------------------------------------------------
(* Claims on the federated lookup *)

\* the store holds a record of database d under the canonical form of the phone
HasMatch(d) ==
    LET k == normalizePhone(phoneArg) IN
    /\ k # Null
    /\ <<d, substring03(k)>> \in DOMAIN blobs
    /\ k \in DOMAIN blobs[<<d, substring03(k)>>]

\* the batch (from 0) of the m-th database of the listing, width 3
BatchIndex(m) == (m - 1) \div batchSize

PosOf(d) == CHOOSE m \in 1..Len(databases) : databases[m] = d

\* positions in the listing of the databases that hold a match
MatchPositions == {m \in 1..Len(databases) : HasMatch(databases[m])}

(* C4: the match findByPhoneParallel returns comes from the earliest batch *)
(* of the listing (width 3) that contains a match: no database of any      *)
(* batch before the returned one holds a match for the phone.              *)
C4_EarliestBatch ==
    fedReturn.kind = "return" =>
        LET d == fedReturn.value.database IN
        /\ HasMatch(d)
        /\ fedReturn.value.record.phone = normalizePhone(phoneArg)
        /\ \A m \in MatchPositions : BatchIndex(PosOf(d)) <= BatchIndex(m)

\* a match of the second batch was returned while a later database also matches
C4_Witness ==
    /\ fedReturn.kind = "return"
    /\ BatchIndex(PosOf(fedReturn.value.database)) = 1
    /\ \E m \in MatchPositions : m > PosOf(fedReturn.value.database)

(* C5: no point lookup is ever issued against a database of a batch after  *)
(* the first batch that contains a match.                                  *)
C5_NoLookupPastMatch ==
    \A q \in 1..Len(databases) :
        databases[q] \in queried =>
            \A m \in MatchPositions : BatchIndex(q) <= BatchIndex(m)

\* six databases, a match in the first batch: the call ended, 4-6 never queried
C5_Witness ==
    /\ fedPc = "done"
    /\ Len(databases) = 6
    /\ MatchPositions # {}
    /\ \A m \in MatchPositions : BatchIndex(m) = 0
    /\ queried = {databases[q] : q \in 1..batchSize}

(* C19: when several databases of one batch hold a match, the match       *)
(* returned is that of the database listed first among them, in whatever   *)
(* order the lookups of the batch were started and settled.                *)
C19_BatchOrderTieBreak ==
    fedReturn.kind = "return" =>
        LET p == PosOf(fedReturn.value.database) IN
        \A m \in MatchPositions : BatchIndex(m) = BatchIndex(p) => p <= m

\* a match was returned from a batch two other databases of which match too
C19_Witness ==
    /\ fedReturn.kind = "return"
    /\ LET p == PosOf(fedReturn.value.database) IN
       Cardinality({m \in MatchPositions : BatchIndex(m) = BatchIndex(p)}) = 3

\* the databases of the bucket
Bucket == {listFolders[i] : i \in 1..Len(listFolders)}

(* C20: when no database of the bucket holds a match, the empty bucket     *)
(* included, a finished findByPhoneParallel has failed with the federated  *)
(* RecordNotFound error, after a lookup in every database.                 *)
C20_FederatedMiss ==
    (fedPc = "done" /\ \A d \in Bucket : ~HasMatch(d)) =>
        /\ fedReturn.kind = "throw"
        /\ fedReturn.error = "PhoneNumberNotFoundException"
        /\ queried = Bucket

\* the promises of the batch that have not settled
InFlight == {j \in DOMAIN lookups : lookups[j].st # "done"}

\* at most three promises are pending, all of one batch
C21_AtMostBatchWidth ==
    /\ Cardinality(InFlight) <= batchSize
    /\ \A j, k \in InFlight : BatchIndex(j) = BatchIndex(k)

\* a step that calls findByPhone for a database finds every database of
\* every earlier batch queried, with no promise of it pending
C21_BatchBarrier ==
    \A d \in queried' \ queried :
        \A m \in 1..Len(databases) :
            BatchIndex(m) < BatchIndex(PosOf(d)) =>
                /\ databases[m] \in queried
                /\ m \notin InFlight

(* C21: during findByPhoneParallel at most three point lookups are in     *)
(* flight, and no lookup of a batch starts before every lookup of the      *)
(* batch before it has settled.                                            *)
C21_ConcurrencyBound == [](C21_AtMostBatchWidth) /\ [][C21_BatchBarrier]_vars

\* the three lookups of the second batch are in flight together
C21_Witness ==
    /\ fedPc = "batch"
    /\ fedI = batchSize
    /\ Cardinality({j \in DOMAIN lookups : lookups[j].st = "looking"}) = batchSize

\* what the point lookup of the m-th database of the listing gives
LookupOf(m) == findByPhone(databases[m], phoneArg)

(* C22: a point lookup that fails for one database does not end the       *)
(* search: a finished call returns a match whenever a database of the      *)
(* listing yields one in the batches searched, and the errors it collected *)
(* are failures of lookups, never PrefixNotFound or RecordNotFound.        *)
C22_ErrorIsolation ==
    /\ \A e \in 1..Len(errors) :
          /\ errors[e].status \notin {"PrefixNotFound", "RecordNotFound"}
          /\ findByPhone(errors[e].database, phoneArg).error = "NotFoundException"
    /\ fedPc = "done" =>
          /\ (\E m \in 1..Len(databases) : LookupOf(m).status = "ok")
                => fedReturn.kind = "return"
          /\ (databases # <<>> /\ fedReturn.kind = "throw")
                => fedReturn.error = "PhoneNumberNotFoundException"

\* a match of the second batch was returned after a lookup of the first
\* batch had failed and another had found no such prefix
C22_Witness ==
    /\ fedReturn.kind = "return"
    /\ BatchIndex(PosOf(fedReturn.value.database)) = 1
    /\ Len(errors) > 0
    /\ BatchIndex(PosOf(errors[1].database)) = 0
    /\ \E m \in 1..batchSize : LookupOf(m).status = "PrefixNotFound"

-----------------------------------------------------------------------------
(* SpecProg: findByPhoneWithProgress, indexer.service.ts 829-956, under    *)
(* the callback of searchPhoneStream, indexer.controller.ts 126-153        *)

\* Math.floor((i / total) * 100)
currentProgress_Floor(i, total) == (100 * i) \div total

\* Math.round((i / total) * 100)
currentProgress(i, total) == (200 * i + total) \div (2 * total)

\* the terminal event of an empty listing reports a match
noDatabasesEvent_Found ==
    [currentDatabase |-> "", progress |-> 100, searching |-> FALSE,
     found |-> TRUE, isComplete |-> TRUE, totalDatabases |-> 0,
     currentDatabaseIndex |-> 0, error |-> "NoDatabases", result |-> NoMatch]

\* 848-857: no database to search
noDatabasesEvent ==
    [currentDatabase |-> "", progress |-> 100, searching |-> FALSE,
     found |-> FALSE, isComplete |-> TRUE, totalDatabases |-> 0,
     currentDatabaseIndex |-> 0, error |-> "NoDatabases", result |-> NoMatch]

\* 864-872: the search starts
startEvent(dbs) ==
    [currentDatabase |-> dbs[1], progress |-> 0, searching |-> TRUE,
     found |-> FALSE, isComplete |-> FALSE, totalDatabases |-> Len(dbs),
     currentDatabaseIndex |-> 0, error |-> "none", result |-> NoMatch]

\* 879-887: database i (from 0) is about to be searched
progressEvent(dbs, i) ==
    [currentDatabase |-> dbs[i + 1], progress |-> currentProgress(i, Len(dbs)),
     searching |-> TRUE, found |-> FALSE, isComplete |-> FALSE,
     totalDatabases |-> Len(dbs), currentDatabaseIndex |-> i,
     error |-> "none", result |-> NoMatch]

\* the found event carries the progress of the iteration
foundEvent_Progress(dbs, i, record) ==
    [currentDatabase |-> dbs[i + 1], progress |-> currentProgress(i, Len(dbs)),
     searching |-> FALSE,
     found |-> TRUE, isComplete |-> TRUE, totalDatabases |-> Len(dbs),
     currentDatabaseIndex |-> i + 1, error |-> "none",
     result |-> [found |-> TRUE, database |-> dbs[i + 1], record |-> record]]

\* 902-911: the record was found in database i
foundEvent(dbs, i, record) ==
    [currentDatabase |-> dbs[i + 1], progress |-> 100, searching |-> FALSE,
     found |-> TRUE, isComplete |-> TRUE, totalDatabases |-> Len(dbs),
     currentDatabaseIndex |-> i + 1, error |-> "none",
     result |-> [found |-> TRUE, database |-> dbs[i + 1], record |-> record]]

\* the lookup error closes the stream
errorEvent_Complete(dbs, i, status) ==
    [currentDatabase |-> dbs[i + 1], progress |-> currentProgress(i, Len(dbs)),
     searching |-> FALSE, found |-> FALSE, isComplete |-> TRUE,
     totalDatabases |-> Len(dbs), currentDatabaseIndex |-> i,
     error |-> status, result |-> NoMatch]

\* 916-925: the lookup in database i failed with another error
errorEvent(dbs, i, status) ==
    [currentDatabase |-> dbs[i + 1], progress |-> currentProgress(i, Len(dbs)),
     searching |-> FALSE, found |-> FALSE, isComplete |-> FALSE,
     totalDatabases |-> Len(dbs), currentDatabaseIndex |-> i,
     error |-> status, result |-> NoMatch]

\* 930-940: no database holds the phone
notFoundEvent(dbs) ==
    [currentDatabase |-> dbs[Len(dbs)], progress |-> 100, searching |-> FALSE,
     found |-> FALSE, isComplete |-> TRUE, totalDatabases |-> Len(dbs),
     currentDatabaseIndex |-> Len(dbs), error |-> "NotFoundAnywhere",
     result |-> NoMatch]

\* 843-889: the listing, the terminal event or the first two events
ProgCall ==
    /\ progPc = "idle"
    /\ \E dbs \in getAllDatabases :
        /\ databases' = dbs
        /\ IF Len(dbs) = 0
           THEN /\ events' = <<noDatabasesEvent>>
                /\ progPc' = "done"
           ELSE /\ events' = <<startEvent(dbs), progressEvent(dbs, 0)>>
                /\ progPc' = "timer"
    /\ UNCHANGED <<notProg, phoneArg, queried, progI, subjectDone, connected>>

\* 889-892: the 500 ms timer fires and findByPhone is called
ProgLookupStart ==
    /\ progPc = "timer"
    /\ progPc' = "looking"
    /\ queried' = queried \cup {databases[progI + 1]}
    /\ UNCHANGED <<notProg, phoneArg, databases, progI, events, subjectDone, connected>>

\* a lookup error ends the search as not found: no try around 892
ProgLookupEnd_StopOnError ==
    /\ progPc = "looking"
    /\ LET r == findByPhone(databases[progI + 1], phoneArg) IN
       IF r.status = "ok"
       THEN /\ events' = Append(events, foundEvent(databases, progI, r.record))
            /\ progPc' = "done"
            /\ UNCHANGED progI
       ELSE IF r.error = "PhoneNumberNotFoundException" /\ progI + 1 < Len(databases)
       THEN /\ events' = Append(events, progressEvent(databases, progI + 1))
            /\ progI' = progI + 1
            /\ progPc' = "timer"
       ELSE /\ events' = Append(events, notFoundEvent(databases))
            /\ progPc' = "done"
            /\ UNCHANGED progI
    /\ UNCHANGED <<notProg, callVars, subjectDone, connected>>

(* 892-940: findByPhone settles. A match ends the call; a                  *)
(* PhoneNumberNotFoundException emits nothing, another error emits an      *)
(* error event; then the next iteration, or the not-found event after the  *)
(* last database.                                                          *)
ProgLookupEnd ==
    /\ progPc = "looking"
    /\ LET r      == findByPhone(databases[progI + 1], phoneArg)
           after  == IF r.error = "PhoneNumberNotFoundException"
                     THEN events
                     ELSE Append(events, errorEvent(databases, progI, r.status))
       IN
       IF r.status = "ok"
       THEN /\ events' = Append(events, foundEvent(databases, progI, r.record))
            /\ progPc' = "done"
            /\ UNCHANGED progI
       ELSE IF progI + 1 < Len(databases)
       THEN /\ events' = Append(after, progressEvent(databases, progI + 1))
            /\ progI' = progI + 1
            /\ progPc' = "timer"
       ELSE /\ events' = Append(after, notFoundEvent(databases))
            /\ progPc' = "done"
            /\ UNCHANGED progI
    /\ UNCHANGED <<notProg, callVars, subjectDone, connected>>

\* controller 147-150: 100 ms after a complete event, subject.complete()
SubjectComplete ==
    /\ ~subjectDone
    /\ \E e \in 1..Len(events) : events[e].isComplete
    /\ subjectDone' = TRUE
    /\ UNCHANGED <<notProg, callVars, progPc, progI, events, connected>>

ProgInit ==
    /\ NormParked /\ IngestParked /\ SearchInit(SearchPhones) /\ FedParked
    /\ ProgParked /\ LookParked /\ StatsParked /\ ReportParked /\ ConfigParked

ProgNext ==
    \/ ProgCall
    \/ ProgLookupStart
    \/ ProgLookupEnd
    \/ SubjectComplete

SpecProg == ProgInit /\ [][ProgNext]_vars

\* timers fire and S3 requests settle
SpecProgFair == SpecProg /\ WF_vars(ProgNext)

(* SpecStream: the same call with a consumer that may go away.  The        *)
(* observable returned at controller 152 is all the consumer holds; when   *)
(* it unsubscribes, the subject loses its observer and nothing else runs:  *)
(* searchPhoneStream registers no teardown and findByPhoneWithProgress     *)
(* takes no cancellation signal.                                           *)
Disconnect ==
    /\ progPc # "idle"
    /\ connected
    /\ ~subjectDone
    /\ connected' = FALSE
    /\ UNCHANGED <<notProg, callVars, progPc, progI, events, subjectDone>>

StreamNext ==
    \/ ProgCall
    \/ ProgLookupStart
    \/ ProgLookupEnd
    \/ SubjectComplete
    \/ Disconnect

SpecStream == ProgInit /\ [][StreamNext]_vars

-----------------------------------------------------------------------------
(* Claims on the progressive lookup *)

CompleteEvents == {e \in 1..Len(events) : events[e].isComplete}

\* at most one complete event, and nothing after it
C6_CompleteIsLast ==
    /\ Cardinality(CompleteEvents) <= 1
    /\ \A e \in CompleteEvents : e = Len(events)

\* the call has returned and its last event is complete
C6_Completed == progPc = "done" /\ CompleteEvents = {Len(events)}

(* C6: every execution of findByPhoneWithProgress emits exactly one event  *)
(* with isComplete = true, and that event is the last one emitted.         *)
C6_ExactlyOneCompleteLast ==
    /\ [](C6_CompleteIsLast /\ (progPc = "done" => C6_Completed))
    /\ <>C6_Completed

\* a lookup failed with an error, the search went on and ended on a match
C6_Witness ==
    /\ C6_Completed
    /\ subjectDone
    /\ events[Len(events)].found
    /\ \E e \in 1..Len(events) : events[e].error = "DataUnreadable"

(* C23: with no database to search, findByPhoneWithProgress emits exactly *)
(* one event, complete and with found = false, and calls findByPhone for   *)
(* no database.                                                            *)
C23_NoDatabases ==
    (progPc # "idle" /\ databases = <<>>) =>
        /\ progPc = "done"
        /\ Len(events) = 1
        /\ events[1].isComplete
        /\ ~events[1].found
        /\ queried = {}

\* the listing failed on a bucket that holds databases; the stream was closed
C23_Witness ==
    /\ progPc = "done"
    /\ databases = <<>>
    /\ folders # {}
    /\ Len(events) = 1
    /\ subjectDone

\* p is i / n * 100 rounded to the nearest integer, halves up
IsRounded(p, i, n) == 2 * p * n <= 200 * i + n /\ 200 * i + n < 2 * (p + 1) * n

\* a step that calls findByPhone for database i (from 0) finds the last
\* event emitted to be the progress event of that database
C24_EventBeforeLookup ==
    queried' # queried =>
        LET last == events[Len(events)] IN
        /\ queried' \ queried = {databases[progI + 1]}
        /\ last.currentDatabase = databases[progI + 1]
        /\ last.currentDatabaseIndex = progI
        /\ IsRounded(last.progress, progI, Len(databases))

\* the step in which a lookup settles emits an event; the next lookup
\* starts in a later step
C24_EventAfterLookup ==
    (progPc = "looking" /\ progPc' # "looking") => Len(events') > Len(events)

(* C24: for every database findByPhoneWithProgress searches, at index i of *)
(* n, an event with progress = round(i / n * 100) is emitted before the    *)
(* lookup starts, and an event is emitted after the lookup settles and     *)
(* before the next lookup starts, a plain miss included.                   *)
C24_PerDatabaseEvents == [][C24_EventBeforeLookup /\ C24_EventAfterLookup]_vars

\* the third of three databases is being looked up (progress 67) after a
\* plain miss in the second
C24_Witness ==
    /\ progPc = "looking"
    /\ Len(databases) = 3
    /\ progI = 2
    /\ events[Len(events)].progress = 67
    /\ LookupOf(2).error = "PhoneNumberNotFoundException"

\* positions in the listing of the databases whose point lookup gives a record
Hits == {m \in 1..Len(databases) : LookupOf(m).status = "ok"}

\* a lookup starts only when none is in flight, for the database that
\* follows the ones queried so far in the listing
C25_OneAtATime ==
    \A d \in queried' \ queried :
        /\ progPc # "looking"
        /\ queried = {databases[q] : q \in 1..(PosOf(d) - 1)}

\* what the finished call has emitted last and queried
C25_Terminal ==
    (progPc = "done" /\ databases # <<>>) =>
        LET last == events[Len(events)] IN
        /\ last.isComplete
        /\ IF Hits # {}
           THEN LET f == CHOOSE m \in Hits : \A k \in Hits : m <= k IN
                /\ last.found
                /\ last.progress = 100
                /\ last.result = [found |-> TRUE, database |-> databases[f],
                                  record |-> LookupOf(f).record]
                /\ queried = {databases[q] : q \in 1..f}
           ELSE /\ ~last.found
                /\ queried = {databases[q] : q \in 1..Len(databases)}

(* C25: findByPhoneWithProgress has at most one point lookup in flight,    *)
(* queries the databases in listing order, ends at the first match with a  *)
(* terminal event of progress 100, found = true and the result, querying   *)
(* no later database, and ends with found = false when no database         *)
(* matched.                                                                *)
C25_SequentialFirstMatch == [](C25_Terminal) /\ [][C25_OneAtATime]_vars

\* the second database matched after a miss; two later ones were not queried,
\* one of which matches too
C25_Witness ==
    /\ progPc = "done"
    /\ Len(databases) = 4
    /\ Hits = {2, 4}
    /\ events[Len(events)].found
    /\ queried = {databases[1], databases[2]}

(* C26: once the consumer of the event stream has disconnected, the        *)
(* producer emits no further event and starts no further lookup.           *)
C26_DisconnectStops ==
    [][~connected => (events' = events /\ queried' = queried)]_vars

-----------------------------------------------------------------------------
(* SpecAgree: findByPhoneParallel, then findByPhoneWithProgress, for the   *)
(* same phone on the same static store                                     *)

\* databases in the bucket the two lookups are compared on
MaxAgreeDbs == 4

AgreeInit ==
    /\ \E n \in 0..MaxAgreeDbs : \E kinds \in [1..n -> StoreKinds] :
       \E phone \in SearchPhones :
           /\ StoreOf(n, kinds, normalizePhone(phone))
           /\ phoneArg = phone
           /\ databases = <<>>
           /\ queried = {}
    /\ NormParked /\ IngestParked /\ FedParked /\ ProgParked /\ LookParked
    /\ StatsParked /\ ReportParked /\ ConfigParked

\* the progressive lookup is called once the federated one has settled
AgreeProgCall ==
    /\ fedPc = "done"
    /\ ProgCall

AgreeNext ==
    \/ FedCall
    \/ \E j \in DOMAIN lookups : FedLookupStart(j)
    \/ \E j \in DOMAIN lookups : FedLookupEnd(j)
    \/ FedBatchEnd
    \/ AgreeProgCall
    \/ ProgLookupStart
    \/ ProgLookupEnd

SpecAgree == AgreeInit /\ [][AgreeNext]_vars

\* the listing of the federated call was empty
FedListedNone == fedReturn.kind = "throw" /\ fedReturn.status = "NoDatabases"

\* both calls have ended, on the same listing
BothEnded ==
    /\ fedPc = "done"
    /\ progPc = "done"
    /\ FedListedNone <=> databases = <<>>

(* C36: on the same store and phone, findByPhoneWithProgress ends with     *)
(* found = true and the record of database d exactly when                  *)
(* findByPhoneParallel returns the record of d, the first database of the  *)
(* listing whose lookup gives a record; it ends with found = false exactly *)
(* when findByPhoneParallel fails as not found, lookups that raise errors  *)
(* included.                                                               *)
C36_SameOutcome ==
    BothEnded =>
        LET last == events[Len(events)] IN
        /\ last.isComplete
        /\ last.found <=> fedReturn.kind = "return"
        /\ last.found =>
              /\ last.result = fedReturn.value
              /\ Hits # {}
              /\ \A m \in Hits : PosOf(last.result.database) <= m
        /\ ~last.found =>
              /\ fedReturn.kind = "throw"
              /\ fedReturn.error \in {"NotFoundException", "PhoneNumberNotFoundException"}
              /\ (last.error = "NoDatabases") <=> (fedReturn.status = "NoDatabases")
              /\ (last.error = "NotFoundAnywhere") <=> (fedReturn.status = "RecordNotFound")

\* both found the record in the second database after the lookup in the
\* first had failed, with a further match behind
C36_Witness ==
    /\ BothEnded
    /\ Len(databases) = 4
    /\ events[Len(events)].found
    /\ fedReturn.kind = "return"
    /\ fedReturn.value.database = databases[2]
    /\ LookupOf(1).error = "NotFoundException"
    /\ Hits = {2, 4}

\* neither found the record: one lookup failed, the others missed
C36_WitnessMiss ==
    /\ BothEnded
    /\ ~events[Len(events)].found
    /\ Len(databases) = 3
    /\ Len(errors) = 1

-----------------------------------------------------------------------------
(* SpecLookup: one findByPhone call, indexer.service.ts 651-761, on a      *)
(* static bucket, with the S3 requests it issues                           *)

\* databases in the bucket of a point lookup
MaxLookDbs == 2

\* raw phones looked up: the two of SearchPhones, a canonical one, two invalid
LookPhones ==
    SearchPhones \cup
    { <<"7","9","9","9","1","2","3","4","5","6","8">>,
      <<"1","2","3","4","5">>,
      <<>> }

LookInit ==
    /\ \E n \in 0..MaxLookDbs : \E kinds \in [1..n -> StoreKinds] :
       \E phone \in SearchPhones :
           StoreOf(n, kinds, normalizePhone(phone))
    /\ NormParked /\ IngestParked /\ CallParked /\ FedParked /\ ProgParked
    /\ LookParked /\ StatsParked /\ ReportParked /\ ConfigParked

\* an S3 request: listObjectsV2 on a prefix, or getObject of a data.json
Request(op, db, prefix) == [op |-> op, db |-> db, prefix |-> prefix]

\* 651-659: the call, up to await prefixExists(dbFolder)
LookCall(d, phone) ==
    /\ lookPc = "idle"
    /\ lookDb' = d
    /\ phoneArg' = phone
    /\ reads' = <<Request("list", d, <<>>)>>
    /\ lookPc' = "dbCheck"
    /\ UNCHANGED <<notLook, databases, queried, lookResult>>

(* 659-696: the container check returns; a missing database throws, then   *)
(* the phone is normalized and checked, then prefixExists(prefixPath)      *)
LookDbChecked ==
    /\ lookPc = "dbCheck"
    /\ IF ~dbExists(lookDb) \/ searchNormalize(phoneArg) = Null
       THEN /\ lookResult' = findByPhone(lookDb, phoneArg)
            /\ lookPc' = "done"
            /\ UNCHANGED reads
       ELSE /\ reads' = Append(reads, Request("list", lookDb,
                                    lookupPrefix(searchNormalize(phoneArg))))
            /\ lookPc' = "prefixCheck"
            /\ UNCHANGED lookResult
    /\ UNCHANGED <<notLook, callVars, lookDb>>

(* 696-720: the prefix check returns; a missing prefix lists the database  *)
(* for the log, a present one reads data.json                              *)
LookPrefixChecked ==
    /\ lookPc = "prefixCheck"
    /\ LET prefix == lookupPrefix(searchNormalize(phoneArg)) IN
       IF ~prefixExists(lookDb, prefix)
       THEN /\ reads' = Append(reads, Request("list", lookDb, <<>>))
            /\ lookPc' = "listing"
       ELSE /\ reads' = Append(reads, Request("get", lookDb, prefix))
            /\ lookPc' = "read"
    /\ UNCHANGED <<notLook, callVars, lookDb, lookResult>>

\* 701-711: listFolders returns or fails (caught); PhoneNumberNotFoundException
LookListed ==
    /\ lookPc = "listing"
    /\ lookResult' = findByPhone(lookDb, phoneArg)
    /\ lookPc' = "done"
    /\ UNCHANGED <<notLook, callVars, lookDb, reads>>

\* 720-751: readJsonFile returns or throws; the record, or the exception
LookRead ==
    /\ lookPc = "read"
    /\ lookResult' = findByPhone(lookDb, phoneArg)
    /\ lookPc' = "done"
    /\ UNCHANGED <<notLook, callVars, lookDb, reads>>

LookNext ==
    \/ \E d \in {DbNames[i] : i \in 1..(MaxLookDbs + 1)} :
       \E phone \in LookPhones : LookCall(d, phone)
    \/ LookDbChecked
    \/ LookPrefixChecked
    \/ LookListed
    \/ LookRead

SpecLookup == LookInit /\ [][LookNext]_vars

-----------------------------------------------------------------------------
(* Claims on point lookup *)

\* the canonical form of the phone looked up, by the normalization rule
LookKey == normalizePhone(phoneArg)

\* the blob of the looked-up database for the prefix of the phone is stored
LookBlobStored == <<lookDb, substring03(LookKey)>> \in DOMAIN blobs

(* C11: a finished findByPhone with a valid phone has failed with          *)
(* DatabaseNotFound if the container is absent, with PrefixNotFound (an    *)
(* error of another class than DatabaseNotFound's) if the container exists *)
(* and the prefix blob is absent, with RecordNotFound if the blob has no   *)
(* entry for the canonical phone, and has returned the Record otherwise.   *)
C11_LookupClassification ==
    (lookPc = "done" /\ LookKey # Null) =>
        IF ~dbExists(lookDb)
        THEN lookResult.status = "DatabaseNotFound"
        ELSE IF ~LookBlobStored
        THEN /\ lookResult.status = "PrefixNotFound"
             /\ lookResult.error # "NotFoundException"
        ELSE IF LookKey \notin DOMAIN blobs[<<lookDb, substring03(LookKey)>>]
        THEN lookResult.status = "RecordNotFound"
        ELSE /\ lookResult.status = "ok"
             /\ lookResult.record = blobs[<<lookDb, substring03(LookKey)>>][LookKey]

(* C12: a finished findByPhone with a phone that normalization rejects has *)
(* failed with InvalidPhone, whether the database container exists or not, *)
(* and has issued no request for the prefix blob.                          *)
C12_PhoneValidatedFirst ==
    (lookPc = "done" /\ LookKey = Null) =>
        /\ lookResult.status = "InvalidPhone"
        /\ \A r \in 1..Len(reads) : reads[r].prefix = <<>>

-----------------------------------------------------------------------------
(* SpecScenario: one createIndex run, indexer.service.ts 261-449, over a   *)
(* given source, at the chunk threshold of the service                     *)

\* data rows of a source
MaxRows == 3

\* column separators of a source: the pipe the service splits on, and the tab
Seps == {"|", "\t"}

HeaderLine(sep) == SourceLine(sep, 5, <<"p", "h", "o", "n", "e">>)

\* a header line, then up to MaxRows rows, all with one separator
ScenarioSources ==
    { <<HeaderLine(sep)>> \o [i \in 1..n |-> SourceLine(sep, rows[i].fields, rows[i].phone)] :
        sep \in Seps, n \in 0..MaxRows, rows \in [1..MaxRows -> RowKinds] }

ScenarioInit ==
    /\ NormParked /\ StoreEmpty /\ IngestParked /\ CallParked /\ FedParked
    /\ ProgParked /\ LookParked /\ StatsParked /\ ReportParked
    /\ chunkSize = CHUNK_SIZE
    /\ source \in ScenarioSources
    /\ encoding = "utf8"

\* the one run of the behaviour starts
ScenarioStart(d) ==
    /\ runCall = 0
    /\ CreateIndexStart(d)

\* readline delivers the next line of the source
ScenarioLine ==
    /\ linesRead < Len(source)
    /\ Line(source[linesRead + 1])

\* readline closes after the last line
ScenarioClose ==
    /\ linesRead = Len(source)
    /\ Close

ScenarioNext ==
    \/ \E d \in DBs : CreateIndexBusy(d)
    \/ \E d \in DBs : ScenarioStart(d)
    \/ SizeOk
    \/ SizeFail
    \/ MkdirOk
    \/ MkdirFail
    \/ OpenOk
    \/ OpenFail
    \/ ScenarioLine
    \/ StreamError
    \/ ScenarioClose
    \/ \E f \in flushes : FlushFolderOk(f)
    \/ \E f \in flushes : FlushFolderFail(f)
    \/ \E f \in flushes : FlushWriteOk(f)
    \/ \E f \in flushes : FlushWriteFail(f)
    \/ MetaOk
    \/ MetaFail

SpecScenario == ScenarioInit /\ [][ScenarioNext]_vars

-----------------------------------------------------------------------------
(* Claims on ingestion of a given source *)

\* a row with the required columns and a phone the normalization rule accepts
ValidRow(l) == l.fields >= 5 /\ normalizePhone(l.phone) # Null

Rows == 2..Len(source)

(* C17: after a run without store failure over a source of a header line   *)
(* and data rows with valid phones (10 digits, 11 digits led by '8' or     *)
(* '7'), every row is stored under its canonical key in the blob of that   *)
(* key's prefix, and totalRecords is the number of data rows.              *)
C17_ScenarioIndexed ==
    (/\ RunResolved
     /\ ~calls[runCall].flushFailed
     /\ Rows # {}
     /\ \A i \in Rows : ValidRow(source[i]))
    =>
    /\ \A i \in Rows :
          LET k == normalizePhone(source[i].phone)
              b == <<runDb, substring03(k)>>
          IN  /\ b \in DOMAIN blobs
              /\ k \in DOMAIN blobs[b]
              /\ blobs[b][k].phone = k
    /\ meta[runDb].totalRecords = Len(source) - 1

\* a row the run must skip: too few columns, or a phone that does not normalize
SkippedRow(l) == l.fields < 5 \/ normalizePhone(l.phone) = Null

\* the handler of such a row only counts the line; the run goes on
C18_SkipStep ==
    (/\ linesRead' = linesRead + 1
     /\ ~isFirstLine
     /\ SkippedRow(source[linesRead + 1]))
    =>
    /\ stats'.processedLines = stats.processedLines + 1
    /\ stats'.recordsFound = stats.recordsFound
    /\ UNCHANGED <<buffer, processed, indexed, flushes, pc, calls, indexingInProgress,
                   storeVars>>

\* a run that met no failure has read every line and resolved
C18_StillCompletes ==
    (runCall = 1 /\ pc = "idle" /\ faults = 0) =>
        /\ calls[1].result = "resolved"
        /\ stats.processedLines = Len(source)

(* C18: a source line with too few fields or with a phone that does not    *)
(* normalize increments the processed-line counter, leaves the indexed-    *)
(* record counter and the buffers unchanged, and does not end the run,     *)
(* which still completes.                                                  *)
C18_BadLinesSkipped == [][C18_SkipStep]_vars /\ []C18_StillCompletes

\* a run resolved over a source with rows it skipped and a row it indexed
C18_Witness ==
    /\ RunResolved
    /\ \E i, j \in Rows : source[i].fields < 5 /\ normalizePhone(source[j].phone) = Null
                          /\ source[j].fields >= 5
    /\ stats.recordsFound = 1
    /\ stats.processedLines = 4

\* the keys stored for database d, each with the blob that holds it
StoredKeys(d) ==
    UNION { {<<b, k>> : k \in DOMAIN blobs[b]} : b \in {x \in DOMAIN blobs : x[1] = d} }

\* the valid rows of the source have pairwise distinct canonical phones
DistinctPhones ==
    \A i, j \in Rows :
        (i # j /\ ValidRow(source[i]) /\ ValidRow(source[j]))
            => normalizePhone(source[i].phone) # normalizePhone(source[j].phone)

(* C27: after a successful run over a source whose valid rows have         *)
(* pairwise distinct canonical phones, metadata.totalRecords is the number *)
(* of keys stored across the partition blobs of the database.              *)
C27_TotalRecordsStored ==
    (RunResolved /\ DistinctPhones) =>
        meta[runDb].totalRecords = Cardinality(StoredKeys(runDb))

\* prefixes of indexed phones that the store does not hold in full
MissingPrefixes ==
    { firstDigits(k) : k \in { x \in indexed :
          \/ <<runDb, firstDigits(x)>> \notin DOMAIN blobs
          \/ x \notin DOMAIN blobs[<<runDb, firstDigits(x)>>] } }

\* a step in which a partition write of the stream-end flush fails leaves
\* the counters alone and the run on its way to the metadata
C34_FailureStep ==
    (pc = "closeflush" /\ faults' = faults + 1) =>
        /\ stats' = stats
        /\ indexed' = indexed
        /\ pc' \in {"closeflush", "meta"}
        /\ calls'[runCall].result = "pending"

\* a run that resolved after a failed write stored the other prefixes and
\* counted every indexed row in its metadata
C34_Outcome ==
    (RunResolved /\ calls[runCall].flushFailed) =>
        /\ Cardinality(MissingPrefixes) <= faults
        /\ meta[runDb].totalRecords = stats.recordsFound
        /\ meta[runDb].totalRecords =
              Cardinality({i \in Rows : Indexable(source[i])})

(* C34: a partition write that fails for one prefix during a flush leaves  *)
(* the other prefixes of the flush written and the indexed-record count    *)
(* as it was, and the run goes on to write metadata whose totalRecords     *)
(* includes the records of the failed prefix.                              *)
C34_FailureContained == [][C34_FailureStep]_vars /\ []C34_Outcome

\* two rows of two prefixes: the write of 749 failed, 799 is stored, and the
\* metadata counts both rows
C34_Witness ==
    /\ RunResolved
    /\ calls[runCall].flushFailed
    /\ stats.prefixesFound = {<<"7", "4", "9">>, <<"7", "9", "9">>}
    /\ MissingPrefixes = {<<"7", "4", "9">>}
    /\ \E b \in DOMAIN blobs : b = <<runDb, <<"7", "9", "9">>>> /\ DOMAIN blobs[b] # {}
    /\ meta[runDb].totalRecords = 2

-----------------------------------------------------------------------------
(* SpecEncoding: one createIndex run over a given source, with every       *)
(* encoding selector of the DTO                                            *)

EncodingInit ==
    /\ NormParked /\ StoreEmpty /\ IngestParked /\ CallParked /\ FedParked
    /\ ProgParked /\ LookParked /\ StatsParked /\ ReportParked
    /\ chunkSize = CHUNK_SIZE
    /\ source \in {s \in ScenarioSources : Len(s) <= 3 /\ s[1].sep = "|"}
    /\ encoding \in Selectors

EncodingNext ==
    \/ \E d \in DBs : CreateIndexBusy(d)
    \/ \E d \in DBs : ScenarioStart(d)
    \/ SizeOk
    \/ SizeFail
    \/ MkdirOk
    \/ MkdirFail
    \/ OpenOk
    \/ OpenFail
    \/ OpenCodecFail
    \/ ScenarioLine
    \/ StreamError
    \/ ScenarioClose
    \/ \E f \in flushes : FlushFolderOk(f)
    \/ \E f \in flushes : FlushFolderFail(f)
    \/ \E f \in flushes : FlushWriteOk(f)
    \/ \E f \in flushes : FlushWriteFail(f)
    \/ MetaOk
    \/ MetaFail

SpecEncoding == EncodingInit /\ [][EncodingNext]_vars

(* C38: with any encoding selector of the DTO a run that meets no store or *)
(* stream failure is not rejected: it resolves a codec and goes on to the  *)
(* lines of the source.                                                    *)
C38_EncodingSelection ==
    (runCall > 0 /\ faults = 0) => calls[runCall].result # "rejected"

-----------------------------------------------------------------------------
(* SpecStats: getSingleDatabaseStats, indexer.service.ts 1011-1054, called *)
(* at any moment of a SpecScenario behaviour                               *)

\* listFolders("<db>/"), 95-122: the common prefixes under the database, in
\* key order; metadata.json has no further '/' and is not one of them
listPrefixes(d) ==
    SortedKeys({m[2] : m \in {x \in markers \cup DOMAIN blobs : x[1] = d}})

\* 1018-1049
getSingleDatabaseStats(d) ==
    IF ~dbExists(d) THEN [status |-> "DatabaseNotFound"]
    ELSE IF d \notin DOMAIN meta THEN [status |-> "MetadataUnreadable"]
    ELSE [status |-> "ok", databaseId |-> d,
          totalRecords |-> meta[d].totalRecords,
          partitions |-> meta[d].partitionsCount,
          prefixes |-> listPrefixes(d)]

StatsCall(d) ==
    /\ statsOut' = getSingleDatabaseStats(d)
    /\ UNCHANGED notStats

StatsNext ==
    \/ \E d \in DBs : CreateIndexBusy(d)
    \/ \E d \in DBs : ScenarioStart(d)
    \/ SizeOk
    \/ SizeFail
    \/ MkdirOk
    \/ MkdirFail
    \/ OpenOk
    \/ OpenFail
    \/ ScenarioLine
    \/ StreamError
    \/ ScenarioClose
    \/ \E f \in flushes : FlushFolderOk(f)
    \/ \E f \in flushes : FlushFolderFail(f)
    \/ \E f \in flushes : FlushWriteOk(f)
    \/ \E f \in flushes : FlushWriteFail(f)
    \/ MetaOk
    \/ MetaFail
    \/ \E d \in DBs : StatsCall(d)

SpecStats == ScenarioInit /\ [][StatsNext]_vars

(* C29: the partition count getSingleDatabaseStats returns is the number   *)
(* of prefixes listed in the store for the database, the length of the     *)
(* prefixes list it returns; stated for behaviours without store failure.  *)
C29_ActualPartitionCount ==
    (statsOut.status = "ok" /\ faults = 0) =>
        statsOut.partitions = Len(statsOut.prefixes)

-----------------------------------------------------------------------------
(* SpecAggregate: getDatabaseStats, indexer.service.ts 971-1009, over a    *)
(* static store.  statsOut holds the local `stats` of the call while it    *)
(* runs and what the caller got once it has returned; databases holds what *)
(* getAllDatabases returned.                                               *)

\* databases in the bucket
MaxStatDbs == 3

\* the largest totalRecords a metadata.json holds
MaxRecords == 2

(* The store of StoreOf, with the totalRecords a run wrote into each        *)
(* metadata.json: the lines it counted, which may exceed the keys stored.  *)
StatStore(n, kinds, recs, target) ==
    LET prefix == substring03(target)
        withBlob == {i \in 1..n : kinds[i] \in {"hit", "other"}}
    IN
    /\ folders = {DbNames[i] : i \in 1..n}
    /\ markers = {<<DbNames[i], prefix>> : i \in {j \in 1..n : kinds[j] # "empty"}}
    /\ blobs = [b \in {<<DbNames[i], prefix>> : i \in withBlob} |->
                  LET i == CHOOSE j \in withBlob : DbNames[j] = b[1]
                      k == IF kinds[i] = "hit" THEN target ELSE OtherPhone(target)
                  IN  [x \in {k} |-> [phone |-> k]]]
    /\ meta = [d \in {DbNames[i] : i \in withBlob} |->
                  LET i == CHOOSE j \in withBlob : DbNames[j] = d
                  IN  [totalRecords |-> recs[i], partitionsCount |-> 1,
                       partitionSize |-> PARTITION_SIZE]]

AggregateInit ==
    /\ \E n \in 0..MaxStatDbs : \E kinds \in [1..n -> StoreKinds] :
       \E recs \in [1..n -> 1..MaxRecords] :
           StatStore(n, kinds, recs,
                     normalizePhone(<<"8","9","9","9","1","2","3","4","5","6","8">>))
    /\ NormParked /\ IngestParked /\ CallParked /\ FedParked /\ ProgParked
    /\ LookParked /\ StatsParked /\ ReportParked /\ ConfigParked

\* what the actions of SpecAggregate leave alone
notAggregate == <<normVars, storeVars, ingestVars, phoneArg, queried, fedVars,
                  progVars, lookVars, reportVars, config>>

\* 973-980: the listing, and the local stats before the loop
AggregateCall ==
    /\ statsOut.status \in {"none", "ok"}
    /\ \E listing \in getAllDatabases :
        /\ databases' = listing
        /\ statsOut' = [status |-> "running", i |-> 0,
                        totalDatabases |-> Len(listing),
                        totalRecords |-> 0,
                        databases |-> <<>>]
    /\ UNCHANGED notAggregate

\* 994-1001, the mutation where the catch of the loop body logs and pushes
\* nothing
AggregateEntryFail_Skip ==
    /\ statsOut.status = "running"
    /\ statsOut.i < Len(databases)
    /\ statsOut' = [statsOut EXCEPT !.i = @ + 1]
    /\ UNCHANGED <<databases, notAggregate>>

\* 983-993: getSingleDatabaseStats returned for the next database
AggregateEntryOk ==
    /\ statsOut.status = "running"
    /\ statsOut.i < Len(databases)
    /\ LET dbId == databases[statsOut.i + 1]
           dbStats == getSingleDatabaseStats(dbId)
       IN
       /\ dbStats.status = "ok"
       /\ statsOut' = [statsOut EXCEPT
              !.i = @ + 1,
              !.totalRecords = @ + dbStats.totalRecords,
              !.databases = Append(@, [id |-> dbId,
                                       records |-> dbStats.totalRecords,
                                       partitions |-> dbStats.partitions])]
    /\ UNCHANGED <<databases, notAggregate>>

(* 994-1001: getSingleDatabaseStats threw for the next database, because   *)
(* the container or the metadata is missing, or because prefixExists,      *)
(* readJsonFile or listFolders failed on a store error (each rethrows).    *)
AggregateEntryFail ==
    /\ statsOut.status = "running"
    /\ statsOut.i < Len(databases)
    /\ statsOut' = [statsOut EXCEPT
           !.i = @ + 1,
           !.databases = Append(@, [id |-> databases[statsOut.i + 1],
                                    records |-> 0,
                                    partitions |-> 0])]
    /\ UNCHANGED <<databases, notAggregate>>

\* 1003-1004: the loop is over, the caller gets stats
AggregateReturn ==
    /\ statsOut.status = "running"
    /\ statsOut.i = Len(databases)
    /\ statsOut' = [statsOut EXCEPT !.status = "ok"]
    /\ UNCHANGED <<databases, notAggregate>>

AggregateNext ==
    \/ AggregateCall
    \/ AggregateEntryOk
    \/ AggregateEntryFail
    \/ AggregateReturn

SpecAggregate == AggregateInit /\ [][AggregateNext]_vars

RECURSIVE SumRecords(_)
SumRecords(entries) ==
    IF entries = <<>> THEN 0
    ELSE entries[1].records + SumRecords(Tail(entries))

(* C39: getDatabaseStats returns one entry per listed database, in listing *)
(* order; a database whose statistics cannot be read has an entry with     *)
(* records 0 and partitions 0, and a readable one its metadata's counts;   *)
(* totalDatabases is the number of entries and totalRecords the sum of     *)
(* their records.  While the call runs, the entries are those of the       *)
(* databases visited so far and totalRecords is their sum.                 *)
C39_AggregateConsistent ==
    statsOut.status \in {"running", "ok"} =>
        LET entries == statsOut.databases IN
        /\ Len(entries) = statsOut.i
        /\ \A k \in 1..Len(entries) :
              LET dbStats == getSingleDatabaseStats(databases[k]) IN
              /\ entries[k].id = databases[k]
              /\ \/ entries[k].records = 0 /\ entries[k].partitions = 0
                 \/ /\ dbStats.status = "ok"
                    /\ entries[k].records = dbStats.totalRecords
                    /\ entries[k].partitions = dbStats.partitions
        /\ statsOut.totalRecords = SumRecords(entries)
        /\ statsOut.status = "ok" =>
              /\ Len(entries) = Len(databases)
              /\ statsOut.totalDatabases = Len(entries)

\* a call returned three entries: an unreadable database with 0 and 0
\* between two readable ones of one and two records
C39_Witness ==
    /\ statsOut.status = "ok"
    /\ Len(statsOut.databases) = 3
    /\ statsOut.databases[1].records = 1
    /\ getSingleDatabaseStats(databases[2]).status # "ok"
    /\ statsOut.databases[2].records = 0
    /\ statsOut.databases[2].partitions = 0
    /\ statsOut.databases[3].records = 2
    /\ statsOut.totalRecords = 3
    /\ statsOut.totalDatabases = 3

-----------------------------------------------------------------------------
(* SpecReport: the byte counters of a createIndex run over a source in a   *)
(* single-byte encoding, and generateProgressReport, indexer.service.ts    *)
(* 520-562.  A line of the source has ASCII characters, one byte each in   *)
(* the source and in UTF-8, and Cyrillic characters, one byte in the       *)
(* source and two in UTF-8, and ends with "\n", "\r\n" or the end of the   *)
(* file.                                                                   *)

\* bytes of the largest source
MaxFileSize == 6

\* characters of each kind in the longest line
MaxLineChars == 2

\* Math.round((bytesProcessed / fileSize) * 100), not clamped
percentOf_Unclamped(bytes, size) == (200 * bytes + size) \div (2 * size)

\* Math.min(100, Math.round((bytesProcessed / fileSize) * 100)), 534-537
percentOf(bytes, size) == Min(100, (200 * bytes + size) \div (2 * size))

\* the assignment of 533-538
reported(p) ==
    IF p.fileSize > 0
    THEN [p EXCEPT !.percentComplete = percentOf(p.bytesProcessed, p.fileSize)]
    ELSE p

\* 267-276: the counters are reset and fileSize is the ContentLength
ReportStart(size) ==
    /\ progress.pc = "idle"
    /\ progress' = [NoProgress EXCEPT !.pc = "stream", !.fileSize = size]
    /\ UNCHANGED notReport

\* 347-349: Buffer.byteLength(line, 'utf8') + 1 for a line of `ascii` and
\* `cyrillic` characters that took ascii + cyrillic + eol bytes of the source
ReportLine(ascii, cyrillic, eol) ==
    /\ progress.pc = "stream"
    /\ progress.sourceRead + ascii + cyrillic + eol <= progress.fileSize
    /\ eol = 0 => /\ ascii + cyrillic > 0
                  /\ progress.sourceRead + ascii + cyrillic = progress.fileSize
    /\ progress' = [progress EXCEPT
                       !.sourceRead = @ + ascii + cyrillic + eol,
                       !.bytesProcessed = @ + ascii + 2 * cyrillic + 1]
    /\ UNCHANGED notReport

\* the interval timer of 309 fires and a report is due
ReportTick ==
    /\ progress.pc = "stream"
    /\ progress' = reported(progress)
    /\ UNCHANGED notReport

\* 408-411: the final report of the 'close' handler
ReportClose ==
    /\ progress.pc = "stream"
    /\ progress.sourceRead = progress.fileSize
    /\ progress' = [reported(progress) EXCEPT !.pc = "closed"]
    /\ UNCHANGED notReport

ReportInit ==
    /\ NormParked /\ StoreEmpty /\ IngestParked /\ CallParked /\ FedParked
    /\ ProgParked /\ LookParked /\ StatsParked /\ ReportParked /\ ConfigParked

ReportNext ==
    \/ \E size \in 0..MaxFileSize : ReportStart(size)
    \/ \E ascii, cyrillic \in 0..MaxLineChars : \E eol \in 0..2 :
          ReportLine(ascii, cyrillic, eol)
    \/ ReportTick
    \/ ReportClose

SpecReport == ReportInit /\ [][ReportNext]_vars

(* C37: percentComplete is an integer from 0 to 100 in every state of a    *)
(* run, also when the bytes counted exceed the size of the source.         *)
C37_PercentClamped == progress.percentComplete \in 0..100

\* a report made in mid-run with more bytes counted than the source has
C37_Witness ==
    /\ progress.pc = "stream"
    /\ progress.sourceRead < progress.fileSize
    /\ progress.bytesProcessed > progress.fileSize
    /\ progress.percentComplete = 100

=============================================================================
